---------------------------- MODULE Spec2Model ----------------------------
(***************************************************************************)
(* A model of the travel chatbot service (TravelChatService and the /chat  *)
(* route).  Text is modelled character by character: a Python str is a     *)
(* sequence of one-character strings, so that substring tests, regular     *)
(* expressions, lower(), strip() and title() are computed, not assumed.    *)
(***************************************************************************)
EXTENDS Integers, Sequences, FiniteSets, TLC

VARIABLES
    token,          \* TravelChatService.token (None or the bearer token)
    token_expiry,   \* TravelChatService.token_expiry (None or a time in seconds)
    now,            \* the wall clock, datetime.now(), in seconds
    groq_api_key,   \* whether TravelChatService.groq_api_key is set
    callers,        \* the get_access_token calls in flight, per caller
    req,            \* the /chat request being processed by process_message
    det,            \* one call of detect_language_and_extract_city
    hot,            \* one call of get_hotels_by_city
    enr,            \* one call of get_hotels_with_ratings
    rat,            \* two calls of get_hotel_rating, on two scores
    cmp,            \* one call of a hotel-reply composer
    health          \* one call of health_check

vars ==
    <<token, token_expiry, now, groq_api_key, callers, req, det, hot, enr, rat, cmp,
      health>>

-----------------------------------------------------------------------------
(* Python values.  A value is a record tagged with its type; the payload   *)
(* of a str is a sequence of characters.                                  *)

None == [t |-> "none"]

Str(cs) == [t |-> "str", v |-> cs]

PyInt(n) == [t |-> "int", n |-> n]

Dict(cs) == [t |-> "dict", v |-> cs]

\* bool(x) of Python: None, "", 0 and {} are false.
Truthy(x) ==
    CASE x.t = "none" -> FALSE
      [] x.t = "str"  -> x.v # <<>>
      [] x.t = "int"  -> x.n # 0
      [] x.t = "dict" -> x.v # <<>>
      [] OTHER        -> TRUE

IsStr(x) == x.t = "str"

-----------------------------------------------------------------------------
(* str methods.                                                            *)

LowerAlpha ==
    <<"a","b","c","d","e","f","g","h","i","j","k","l","m","n","o","p","q",
      "r","s","t","u","v","w","x","y","z","à","ô">>

UpperAlpha ==
    <<"A","B","C","D","E","F","G","H","I","J","K","L","M","N","O","P","Q",
      "R","S","T","U","V","W","X","Y","Z","À","Ô">>

IsLowerChar(c) == \E k \in 1..Len(LowerAlpha) : LowerAlpha[k] = c

IsUpperChar(c) == \E k \in 1..Len(UpperAlpha) : UpperAlpha[k] = c

IsCased(c) == IsLowerChar(c) \/ IsUpperChar(c)

LowerChar(c) ==
    IF IsUpperChar(c)
    THEN LowerAlpha[CHOOSE k \in 1..Len(UpperAlpha) : UpperAlpha[k] = c]
    ELSE c

UpperChar(c) ==
    IF IsLowerChar(c)
    THEN UpperAlpha[CHOOSE k \in 1..Len(LowerAlpha) : LowerAlpha[k] = c]
    ELSE c

\* str.lower()
Lower(s) == [k \in 1..Len(s) |-> LowerChar(s[k])]

IsSpace(c) == c \in {" ", "\t", "\n"}

\* str.title(): a cased character that follows an uncased one (or starts the
\* string) is upper-cased, every other cased character is lower-cased.
Title(s) ==
    [k \in 1..Len(s) |->
        IF k = 1 \/ ~IsCased(s[k-1]) THEN UpperChar(s[k]) ELSE LowerChar(s[k])]

RECURSIVE LStrip(_)
LStrip(s) == IF s # <<>> /\ IsSpace(Head(s)) THEN LStrip(Tail(s)) ELSE s

RECURSIVE RStrip(_)
RStrip(s) ==
    IF s # <<>> /\ IsSpace(s[Len(s)]) THEN RStrip(SubSeq(s, 1, Len(s)-1)) ELSE s

\* str.strip()
Strip(s) == RStrip(LStrip(s))

\* whether sub occurs in s at position i
OccursAt(sub, s, i) ==
    /\ i + Len(sub) - 1 <= Len(s)
    /\ \A k \in 1..Len(sub) : s[i + k - 1] = sub[k]

\* Python's `sub in s`
Contains(sub, s) == \E i \in 1..(Len(s) + 1) : OccursAt(sub, s, i)

\* any(word in s for word in words)
AnyIn(words, s) == \E k \in 1..Len(words) : Contains(words[k], s)

-----------------------------------------------------------------------------
(* Regular expressions, as re.search evaluates them: a backtracking        *)
(* matcher that tries the ways a pattern can match at a position in the    *)
(* order Python tries them and reports the first that succeeds.            *)

Lit(cs) == [t |-> "lit", cs |-> cs]

\* \s
Space == [t |-> "cls", c |-> "space"]

\* [^,.\n]
NotSep == [t |-> "cls", c |-> "notsep"]

\* .
Dot == [t |-> "cls", c |-> "dot"]

\* $
Eos == [t |-> "eos"]

Cat(rs) == [t |-> "cat", rs |-> rs]

Alt(rs) == [t |-> "alt", rs |-> rs]

\* r?
Opt(r) == [t |-> "opt", r |-> r]

\* r+
Plus(r) == [t |-> "plus", r |-> r]

\* r+?
LazyPlus(r) == [t |-> "lazyplus", r |-> r]

\* r*?
LazyStar(r) == [t |-> "lazystar", r |-> r]

\* (r), the capture group
Grp(r) == [t |-> "grp", r |-> r]

InClass(c, ch) ==
    CASE c = "space"  -> IsSpace(ch)
      [] c = "notsep" -> ch \notin {",", ".", "\n"}
      [] c = "dot"    -> ch # "\n"

\* $ matches at the end of the string and before a final newline
AtEnd(s, i) == i = Len(s) + 1 \/ (i = Len(s) /\ s[i] = "\n")

\* markers of the capture group, on the matcher's stack
GrpOpen == [t |-> "gopen"]

GrpClose == [t |-> "gclose"]

RECURSIVE ReMatch(_, _, _, _)
\* The backtracking matcher: todo is the stack of patterns still to match
\* from position i of s, g the capture so far (<<from, to>>).  It gives the
\* first way to match all of todo, in the order Python tries them, as
\* <<[e |-> position after the match, g |-> capture]>>, or <<>> for none.
ReMatch(todo, s, i, g) ==
    IF todo = <<>> THEN <<[e |-> i, g |-> g]>>
    ELSE
    LET r == Head(todo)
        rest == Tail(todo)
    IN  CASE r.t = "lit" ->
                IF OccursAt(r.cs, s, i) THEN ReMatch(rest, s, i + Len(r.cs), g) ELSE <<>>
          [] r.t = "cls" ->
                IF i <= Len(s) /\ InClass(r.c, s[i]) THEN ReMatch(rest, s, i + 1, g)
                ELSE <<>>
          [] r.t = "eos" ->
                IF AtEnd(s, i) THEN ReMatch(rest, s, i, g) ELSE <<>>
          [] r.t = "cat" -> ReMatch(r.rs \o rest, s, i, g)
          [] r.t = "alt" ->
                IF r.rs = <<>> THEN <<>>
                ELSE LET first == ReMatch(<<Head(r.rs)>> \o rest, s, i, g)
                     IN  IF first # <<>> THEN first
                         ELSE ReMatch(<<Alt(Tail(r.rs))>> \o rest, s, i, g)
          [] r.t = "opt" ->
                LET with == ReMatch(<<r.r>> \o rest, s, i, g)
                IN  IF with # <<>> THEN with ELSE ReMatch(rest, s, i, g)
          [] r.t = "plus" -> ReMatch(<<r.r, [t |-> "star", r |-> r.r]>> \o rest, s, i, g)
          [] r.t = "star" ->
                LET more == ReMatch(<<r.r, r>> \o rest, s, i, g)
                IN  IF more # <<>> THEN more ELSE ReMatch(rest, s, i, g)
          [] r.t = "lazyplus" -> ReMatch(<<r.r, LazyStar(r.r)>> \o rest, s, i, g)
          [] r.t = "lazystar" ->
                LET stop == ReMatch(rest, s, i, g)
                IN  IF stop # <<>> THEN stop ELSE ReMatch(<<r.r, r>> \o rest, s, i, g)
          [] r.t = "grp" -> ReMatch(<<GrpOpen, r.r, GrpClose>> \o rest, s, i, g)
          [] r.t = "gopen" -> ReMatch(rest, s, i, <<i, i>>)
          [] r.t = "gclose" -> ReMatch(rest, s, i, <<g[1], i>>)

RECURSIVE ReSearchFrom(_, _, _)
\* re.search(r, s) from position i on: the first match of the leftmost
\* position that has one, <<>> when there is none
ReSearchFrom(r, s, i) ==
    IF i > Len(s) + 1 THEN <<>>
    ELSE LET m == ReMatch(<<r>>, s, i, <<>>)
         IN  IF m # <<>> THEN m ELSE ReSearchFrom(r, s, i + 1)

\* re.search(r, s): <<>> for no match, else <<match.group(1)>>
ReSearch(r, s) ==
    LET m == ReSearchFrom(r, s, 1)
    IN  IF m = <<>> THEN <<>> ELSE <<SubSeq(s, m[1].g[1], m[1].g[2] - 1)>>

\* the tail every city pattern shares: ([^,.\n]+?)(?:\s|$|,|\.)
CityTail == <<Grp(LazyPlus(NotSep)), Alt(<<Space, Eos, Lit(<<",">>), Lit(<<".">>)>>)>>


-----------------------------------------------------------------------------
(* The words of the detector, written out as character sequences.          *)

W_hotel == <<"h","o","t","e","l">>

W_s == <<"s">>

W_in == <<" ","i","n"," ">>

W_sp == <<" ">>

W_at == <<"a","t">>

W_from == <<"f","r","o","m">>

W_find == <<"f","i","n","d">>

W_search == <<"s","e","a","r","c","h">>

W_show == <<"s","h","o","w">>

W_get == <<"g","e","t">>

W_hotelF == <<"h","ô","t","e","l">>

W_aF == <<"à">>

W_des == <<"d","e","s">>

W_dans == <<"d","a","n","s">>

W_cherche == <<"c","h","e","r","c","h","e">>

W_hotely == <<"h","o","t","e","l","y">>

W_any == <<"a","n","y">>

W_tiako == <<"t","i","a","k","o">>

W_asehoy == <<"a","s","e","h","o","y">>

L_english == <<"e","n","g","l","i","s","h">>

L_french == <<"f","r","e","n","c","h">>

L_malagasy == <<"m","a","l","a","g","a","s","y">>

english == Str(L_english)

french == Str(L_french)

malagasy == Str(L_malagasy)

SupportedLanguages == {english, french, malagasy}

french_indicators ==
    <<<<"j","e"," ","v","e","u","x">>,
      <<"d","e","s"," ","h","ô","t","e","l","s">>,
      <<"à">>,
      <<"m","o","n","t","r","e","z","-","m","o","i">>,
      <<"j","e"," ","c","h","e","r","c","h","e">>,
      <<"b","o","n","j","o","u","r">>,
      <<"d","a","n","s">>>>

malagasy_indicators ==
    <<<<"t","i","a","k","o">>,
      <<"h","o","t","e","l","y">>,
      <<"a","n","y">>,
      <<"a","s","e","h","o","y">>,
      <<"m","a","n","a","o"," ","a","h","o","a","n","a">>,
      <<"s","a","l","a","m","a">>,
      <<"t","o","e","r","a","n","a">>>>

\* the keys of city_mapping, in the order of the dict; each value of the
\* dict is its key in title case ('new york': 'New York')
city_mapping_keys ==
    <<<<"a","n","t","a","n","a","n","a","r","i","v","o">>,
      <<"t","o","a","m","a","s","i","n","a">>,
      <<"a","n","t","s","i","r","a","b","e">>,
      <<"f","i","a","n","a","r","a","n","t","s","o","a">>,
      <<"m","a","h","a","j","a","n","g","a">>,
      <<"t","o","l","i","a","r","a">>,
      <<"a","n","t","s","i","r","a","n","a","n","a">>,
      <<"d","h","a","k","a">>,
      <<"m","u","m","b","a","i">>,
      <<"d","e","l","h","i">>,
      <<"p","a","r","i","s">>,
      <<"l","o","n","d","o","n">>,
      <<"t","o","k","y","o">>,
      <<"n","e","w"," ","y","o","r","k">>,
      <<"s","y","d","n","e","y">>>>

city_mapping(key) == Title(key)

InCityMapping(c) == \E k \in 1..Len(city_mapping_keys) : city_mapping_keys[k] = c

english_patterns ==
    << Cat(<<Lit(W_hotel), Opt(Lit(W_s)), Lit(W_in)>> \o CityTail),
       Cat(<<Lit(W_hotel), Opt(Lit(W_s)), Lit(W_sp),
             Alt(<<Lit(W_at), Lit(W_from)>>), Lit(W_sp)>> \o CityTail),
       Cat(<<Alt(<<Lit(W_find), Lit(W_search), Lit(W_show), Lit(W_get)>>),
             Lit(W_sp), Lit(W_hotel), Opt(Lit(W_s)), Lit(W_in)>> \o CityTail) >>

french_patterns ==
    << Cat(<<Lit(W_hotelF), Opt(Lit(W_s)), Plus(Space), Lit(W_aF), Plus(Space)>>
           \o CityTail),
       Cat(<<Lit(W_des), Plus(Space), Lit(W_hotelF), Opt(Lit(W_s)), Plus(Space),
             Lit(W_aF), Plus(Space)>> \o CityTail),
       Cat(<<Lit(W_hotelF), Opt(Lit(W_s)), Plus(Space), Lit(W_dans), Plus(Space)>>
           \o CityTail),
       Cat(<<Lit(W_cherche), LazyStar(Dot), Lit(W_hotelF), Opt(Lit(W_s)),
             Plus(Space), Lit(W_aF), Plus(Space)>> \o CityTail) >>

malagasy_patterns ==
    << Cat(<<Lit(W_hotely), Plus(Space), Lit(W_any), Plus(Space)>> \o CityTail),
       Cat(<<Lit(W_tiako), Plus(Space), Lit(W_hotely), Plus(Space), Lit(W_any),
             Plus(Space)>> \o CityTail),
       Cat(<<Lit(W_asehoy), Plus(Space), Lit(W_hotely), Plus(Space), Lit(W_any),
             Plus(Space)>> \o CityTail),
       Cat(<<Lit(W_any), Plus(Space)>> \o CityTail) >>

RECURSIVE FirstPatternMatch(_, _, _)
\* for pattern in patterns: match = re.search(pattern, s); if match: ...
\* <<>> when no pattern matches, else <<group(1)>> of the first that does
FirstPatternMatch(patterns, k, s) ==
    IF k > Len(patterns) THEN <<>>
    ELSE LET m == ReSearch(patterns[k], s)
         IN  IF m # <<>> THEN m ELSE FirstPatternMatch(patterns, k + 1, s)

extract_city_english(message) ==
    LET m == FirstPatternMatch(english_patterns, 1, Lower(message))
    IN  IF m # <<>> THEN Str(Title(Strip(m[1]))) ELSE None

extract_city_french(message) ==
    LET m == FirstPatternMatch(french_patterns, 1, Lower(message))
    IN  IF m # <<>> THEN Str(Title(Strip(m[1]))) ELSE None

RECURSIVE FirstCityMentioned(_, _)
\* for malagasy_city, english_city in city_mapping.items(): if malagasy_city in s
FirstCityMentioned(k, s) ==
    IF k > Len(city_mapping_keys) THEN None
    ELSE IF Contains(city_mapping_keys[k], s)
         THEN Str(city_mapping(city_mapping_keys[k]))
         ELSE FirstCityMentioned(k + 1, s)

extract_city_malagasy(message) ==
    LET m == FirstPatternMatch(malagasy_patterns, 1, Lower(message))
    IN  IF m # <<>>
        THEN LET city_found == Strip(m[1])
             IN  IF InCityMapping(city_found)
                 THEN Str(city_mapping(city_found))
                 ELSE Str(Title(city_found))
        ELSE FirstCityMentioned(1, Lower(message))

\* a detector that tests the Malagasy markers before the French ones:
\* C21_FallbackLanguageOrder tells it from the order of the source
detected_language_malagasy_first(message) ==
    IF AnyIn(malagasy_indicators, Lower(message)) THEN malagasy
    ELSE IF AnyIn(french_indicators, Lower(message)) THEN french
    ELSE english

\* the language fallback_language_detection picks: the first list with a
\* marker in the lower-cased message, english by default
detected_language(message) ==
    IF AnyIn(french_indicators, Lower(message)) THEN french
    ELSE IF AnyIn(malagasy_indicators, Lower(message)) THEN malagasy
    ELSE english

\* fallback_language_detection(message) -> (language, city)
fallback_language_detection(message) ==
    LET lang == detected_language(message)
    IN  IF lang = french THEN <<french, extract_city_french(message)>>
        ELSE IF lang = malagasy THEN <<malagasy, extract_city_malagasy(message)>>
        ELSE <<english, extract_city_english(message)>>

-----------------------------------------------------------------------------
(* The generative service (the chat-completion endpoint) as the detector   *)
(* sees it: what one POST can come back with.                              *)

W_hello == <<"h","e","l","l","o">>

W_hi == <<"h","i">>

W_hey == <<"h","e","y">>

W_bonjour == <<"b","o","n","j","o","u","r">>

W_salut == <<"s","a","l","u","t">>

W_bonsoir == <<"b","o","n","s","o","i","r">>

W_manao_ahoana == <<"m","a","n","a","o"," ","a","h","o","a","n","a">>

W_salama == <<"s","a","l","a","m","a">>

W_akory == <<"a","k","o","r","y">>

C_Paris == <<"P","a","r","i","s">>

L_spanish == <<"s","p","a","n","i","s","h">>

M_hotels_paris == <<"I"," ","w","a","n","t"," ","h","o","t","e","l","s"," ","i","n"," ","P","a","r","i","s">>

M_hotels_new_york == <<"I"," ","w","a","n","t"," ","h","o","t","e","l","s"," ","i","n"," ","N","e","w"," ","Y","o","r","k">>

M_hotels_germany == <<"I"," ","w","a","n","t"," ","h","o","t","e","l","s"," ","i","n"," ","G","e","r","m","a","n","y">>

M_fr_paris == <<"J","e"," ","v","e","u","x"," ","d","e","s"," ","h","ô","t","e","l","s"," ","à"," ","P","a","r","i","s">>

M_mg_tana == <<"T","i","a","k","o"," ","h","o","t","e","l","y"," ","a","n","y"," ","A","n","t","a","n","a","n","a","r","i","v","o">>

M_help == <<"h","e","l","p">>

M_bonjour_salama == <<"B","o","n","j","o","u","r",","," ","s","a","l","a","m","a">>

M_hotels_oslo == <<"I"," ","w","a","n","t"," ","h","o","t","e","l","s"," ","i","n"," ","O","s","l","o">>

M_salama_bonjour == <<"S","A","L","A","M","A",","," ","B","O","N","J","O","U","R">>

M_thanks == <<"T","h","a","n","k","s","!">>

M_Bonjour == <<"B","o","n","j","o","u","r">>

M_hello_help == <<"H","e","l","l","o",","," ","h","e","l","p","!">>

M_salut_aide == <<"S","a","l","u","t",","," ","a","i","d","e","z","-","m","o","i">>

\* the messages of the model
Messages ==
    {W_hello, W_hi, W_hey, W_bonjour, W_salut, W_bonsoir, W_manao_ahoana, W_salama,
     W_akory, M_hotels_paris, M_hotels_new_york, M_hotels_germany, M_fr_paris,
     M_mg_tana, M_help, M_bonjour_salama, M_hotels_oslo, M_salama_bonjour, M_thanks,
     M_Bonjour, M_hello_help, M_salut_aide}

\* fallback_language_detection, tabulated once over the messages of the model
FallbackTable == [m \in Messages |-> fallback_language_detection(m)]

FallbackOf(message) == FallbackTable[message]

\* greeting keywords that fall back on the English list for any other
\* language: C22_CannedConversationalReply tells them from the lookup of the
\* source
greetings_or_english(language) ==
    CASE language = french   -> <<W_bonjour, W_salut, W_bonsoir>>
      [] language = malagasy -> <<W_manao_ahoana, W_salama, W_akory>>
      [] OTHER               -> <<W_hello, W_hi, W_hey>>

\* the greeting keywords of get_fallback_conversational_response
greetings(language) ==
    CASE language = english  -> <<W_hello, W_hi, W_hey>>
      [] language = french   -> <<W_bonjour, W_salut, W_bonsoir>>
      [] language = malagasy -> <<W_manao_ahoana, W_salama, W_akory>>
      [] OTHER               -> <<>>

\* a key of a JSON object: <<>> when the key is absent, else <<value>>
Absent == <<>>

Present(x) == <<x>>

\* dict.get(key, default)
DictGet(field, default) == IF field = Absent THEN default ELSE field[1]

\* One reply of the chat-completion endpoint to the detector's prompt:
\*   outcome  "neterr" (the POST raises: connection failure, timeout) or "http"
\*   status   the HTTP status
\*   json     "invalid" (response.json() raises), "nochoices" (the path
\*            ["choices"][0]["message"]["content"] is missing), or "ok"
\*   content  what json.loads(content) gives: "invalid" (it raises), "array"
\*            (valid JSON that is no object) or "object"
\*   language, city   the two keys of the object
GroqDetectReply(outcome, status, json, content, language, city) ==
    [outcome |-> outcome, status |-> status, json |-> json, content |-> content,
     language |-> language, city |-> city]

NoGroqDetectReply == GroqDetectReply("none", 0, "invalid", "invalid", Absent, Absent)

GroqLanguageValues ==
    {Absent, Present(english), Present(french), Present(malagasy),
     Present(Str(L_spanish)), Present(None)}

GroqCityValues == {Absent, Present(None), Present(Str(C_Paris)), Present(Dict(<<"x">>))}

GroqDetectReplies ==
    {GroqDetectReply("neterr", 0, "invalid", "invalid", Absent, Absent),
     GroqDetectReply("http", 500, "invalid", "invalid", Absent, Absent),
     GroqDetectReply("http", 200, "invalid", "invalid", Absent, Absent),
     GroqDetectReply("http", 200, "nochoices", "invalid", Absent, Absent),
     GroqDetectReply("http", 200, "ok", "invalid", Absent, Absent),
     GroqDetectReply("http", 200, "ok", "array", Absent, Absent)}
    \cup {GroqDetectReply("http", 200, "ok", "object", l, c) :
            l \in GroqLanguageValues, c \in GroqCityValues}

\* whether the statements under `if response.status_code == 200:` raise
DetectParseRaises(reply) == reply.json # "ok" \/ reply.content # "object"

\* The body of the try block of detect_language_and_extract_city:
\* [exc |-> whether it raises, called |-> whether the POST was made,
\*  value |-> the (language, city) it returns when it does not raise]
detect_try(message, key, reply) ==
    IF ~key
    THEN [exc |-> FALSE, called |-> FALSE, value |-> FallbackOf(message)]
    ELSE IF reply.outcome = "neterr"
    THEN [exc |-> TRUE, called |-> TRUE, value |-> <<None, None>>]
    ELSE IF reply.status = 200
    THEN IF DetectParseRaises(reply)
         THEN [exc |-> TRUE, called |-> TRUE, value |-> <<None, None>>]
         ELSE [exc |-> FALSE, called |-> TRUE,
               value |-> <<DictGet(reply.language, english), DictGet(reply.city, None)>>]
    ELSE [exc |-> FALSE, called |-> TRUE, value |-> FallbackOf(message)]

\* an except clause that lets the exception through: C6_DetectFallsBack tells
\* it from the clause of the source
detect_reraise(message, try) ==
    [outcome |-> IF try.exc THEN "raised" ELSE "returned", called |-> try.called,
     value |-> try.value]

\* `except Exception as e:` of detect_language_and_extract_city
detect_except(message, try) ==
    IF try.exc
    THEN [outcome |-> "returned", called |-> try.called,
          value |-> FallbackOf(message)]
    ELSE [outcome |-> "returned", called |-> try.called, value |-> try.value]

\* detect_language_and_extract_city(message), given the reply of the service
detect_language_and_extract_city(message, key, reply) ==
    detect_except(message, detect_try(message, key, reply))

-----------------------------------------------------------------------------
(* Exceptions, by class name.                                              *)

\* httpx.ConnectError and httpx.TimeoutException derive from
\* httpx.TransportError, which derives from Exception only; KeyError,
\* TypeError and AttributeError are no ValueError either.
\* json.JSONDecodeError and pydantic's ValidationError are ValueErrors.
IsValueError(exc) == exc \in {"ValueError", "JSONDecodeError", "ValidationError"}

IsConnectionError(exc) == exc = "ConnectionError"

-----------------------------------------------------------------------------
(* The token cache: get_access_token.                                      *)

Time(n) == [t |-> "time", at |-> n]

\* timedelta(seconds=token_data["expires_in"] - 300)
ExpiryMargin == 300

\* a cache test that never looks at the expiry: C1_SecondCallUsesCache tells it
\* from the test of the source
CacheIgnoringExpiry(tok, exp, t) == Truthy(tok)

\* `self.token and self.token_expiry and datetime.now() < self.token_expiry`
CacheValid(tok, exp, t) == Truthy(tok) /\ exp # None /\ t < exp.at

\* an expiry without the margin: C19_MarginBeforeExpiry tells it from the
\* expiry of the source
ExpiryWithoutMargin(t, expires_in) == Time(t + expires_in)

\* datetime.now() + timedelta(seconds=token_data["expires_in"] - 300)
StoredExpiry(t, expires_in) == Time(t + expires_in - ExpiryMargin)

\* One reply of the token endpoint:
\*   outcome  "connect" (httpx.ConnectError), "timeout" (httpx.TimeoutException;
\*            the POST runs under httpx's default timeout) or "http"
\*   status   the HTTP status
\*   json     "invalid" (response.json() raises) or "ok"
\*   access_token, expires_in   the two keys of token_data
TokenReply(outcome, status, json, access_token, expires_in) ==
    [outcome |-> outcome, status |-> status, json |-> json,
     access_token |-> access_token, expires_in |-> expires_in]

\* The statements of get_access_token from the POST on, when the reply
\* arrives at time t with the cache holding (tok, exp):
\* [exc |-> the exception raised or "none", token, token_expiry |-> the cache
\*  afterwards, result |-> the value returned when nothing is raised]
token_exchange(reply, tok, exp, t) ==
    IF reply.outcome = "connect"
    THEN [exc |-> "ConnectError", token |-> tok, token_expiry |-> exp, result |-> None]
    ELSE IF reply.outcome = "timeout"
    THEN [exc |-> "TimeoutException", token |-> tok, token_expiry |-> exp, result |-> None]
    ELSE IF reply.status # 200
    THEN [exc |-> "ConnectionError", token |-> tok, token_expiry |-> exp, result |-> None]
    ELSE IF reply.json # "ok"
    THEN [exc |-> "JSONDecodeError", token |-> tok, token_expiry |-> exp, result |-> None]
    ELSE IF reply.access_token = Absent
    THEN [exc |-> "KeyError", token |-> tok, token_expiry |-> exp, result |-> None]
    ELSE IF reply.expires_in = Absent
    THEN [exc |-> "KeyError", token |-> reply.access_token[1], token_expiry |-> exp,
          result |-> None]
    ELSE [exc |-> "none", token |-> reply.access_token[1],
          token_expiry |-> StoredExpiry(t, reply.expires_in[1]),
          result |-> reply.access_token[1]]

-----------------------------------------------------------------------------
(* The city resolver: get_city_code.                                       *)

\* One reply of the location search:
\*   outcome  "neterr" (the GET raises) or "http"
\*   json     "invalid" (response.json() raises), "nonobject" (valid JSON that
\*            is no object, so data.get raises) or "ok"
\*   data     the "data" key: Absent, or Present(list of locations); a location
\*            is [iataCode |-> Absent or Present(value)]
CityReply(outcome, status, json, data) ==
    [outcome |-> outcome, status |-> status, json |-> json, data |-> data]

\* the body of the try block: [exc, value]
city_code_try(reply) ==
    IF reply.outcome = "neterr" THEN [exc |-> TRUE, value |-> None]
    ELSE IF reply.status = 200
    THEN IF reply.json # "ok" THEN [exc |-> TRUE, value |-> None]
         ELSE LET locations == DictGet(reply.data, <<>>)
              IN  IF locations # <<>>
                  THEN [exc |-> FALSE, value |-> DictGet(locations[1].iataCode, None)]
                  ELSE [exc |-> FALSE, value |-> None]
    ELSE [exc |-> FALSE, value |-> None]

\* get_city_code(city_name, access_token): the except clause logs, and the
\* function ends with `return None`
get_city_code(reply) ==
    LET try == city_code_try(reply)
    IN  IF try.exc THEN None ELSE try.value

-----------------------------------------------------------------------------
(* The hotel lookup: get_hotels_by_city.                                   *)

\* for hotel in hotels[:8]
HotelLimit == 8

\* One entry of the "data" list of the hotels-by-city reply: a JSON object
\* with optional "name" and "hotelId", or a value that is no object ("junk").
\* "address" and "geoCode" are copied through and never read: left out.
HotelEntry(kind, name, hotelId) == [kind |-> kind, name |-> name, hotelId |-> hotelId]

\* One reply of the hotels-by-city endpoint:
\*   data  "absent" (no "data" key), "nonlist" (a value that cannot be
\*         sliced) or "list"; hotels is the list
HotelReply(outcome, status, json, data, hotels) ==
    [outcome |-> outcome, status |-> status, json |-> json, data |-> data,
     hotels |-> hotels]

\* hotels[:n]
Slice(hotels, n) == SubSeq(hotels, 1, IF Len(hotels) < n THEN Len(hotels) ELSE n)

\* `if name and hotel_id`
HasNameAndId(entry) ==
    /\ Truthy(DictGet(entry.name, None))
    /\ Truthy(DictGet(entry.hotelId, None))

HotelRecord(entry) == [name |-> entry.name[1], hotel_id |-> entry.hotelId[1]]

\* a loop over the whole list: C10_FirstEightThenFilter tells it from the
\* loop of the source
HotelsAll(hotels) == hotels

\* the entries the loop over hotels[:8] looks at
HotelsSeen(hotels) == Slice(hotels, HotelLimit)

\* the loop: hotel.get raises on an entry that is no object
hotel_list(hotels) ==
    LET seen == HotelsSeen(hotels)
        kept == SelectSeq(seen, HasNameAndId)
    IN  IF \E k \in 1..Len(seen) : seen[k].kind # "dict"
        THEN [exc |-> TRUE, value |-> <<>>]
        ELSE [exc |-> FALSE, value |-> [k \in 1..Len(kept) |-> HotelRecord(kept[k])]]

\* the body of the try block: [exc, value]
hotels_try(reply) ==
    IF reply.outcome = "neterr" THEN [exc |-> TRUE, value |-> <<>>]
    ELSE IF reply.status = 200
    THEN IF reply.json # "ok" \/ reply.data = "nonlist" THEN [exc |-> TRUE, value |-> <<>>]
         ELSE IF reply.data = "absent" THEN [exc |-> FALSE, value |-> <<>>]
         ELSE hotel_list(reply.hotels)
    ELSE [exc |-> FALSE, value |-> <<>>]

\* `except Exception as e: ... return []`
hotels_except(try) ==
    IF try.exc THEN [outcome |-> "returned", value |-> <<>>]
    ELSE [outcome |-> "returned", value |-> try.value]

\* get_hotels_by_city(city_code, access_token)
get_hotels_by_city(reply) == hotels_except(hotels_try(reply))

-----------------------------------------------------------------------------
(* The rating lookup: get_hotel_rating.                                    *)

DigitChars == <<"0","1","2","3","4","5","6","7","8","9">>

RECURSIVE Digits(_)
\* str(n) of a natural number
Digits(n) ==
    IF n < 10 THEN <<DigitChars[n + 1]>>
    ELSE Digits(n \div 10) \o <<DigitChars[(n % 10) + 1]>>

\* str(x), as an f-string formats x
PyStr(x) ==
    CASE x.t = "str"  -> x.v
      [] x.t = "int"  -> Digits(x.n)
      [] x.t = "none" -> <<"N","o","n","e">>
      [] x.t = "dict" -> <<"{">> \o x.v \o <<"}">>

\* a division that drops the remainder: C12_StarsFromScore tells it from the
\* rounding of the source
FloorDiv20(s) == s \div 20

\* round(float(overall_rating) / 20): Python rounds a half to the even integer
RoundDiv20(s) ==
    LET q == s \div 20
        r == s % 20
    IN  IF r < 10 THEN q
        ELSE IF r > 10 THEN q + 1
        ELSE IF q % 2 = 0 THEN q ELSE q + 1

\* stars = max(1, min(5, stars))
Clamp15(n) == IF n < 1 THEN 1 ELSE IF n > 5 THEN 5 ELSE n

Stars(s) == Clamp15(RoundDiv20(s))

\* "*" * stars + f" ({overall_rating}/100)", the star emoji written "*"
rating_text(s) ==
    [k \in 1..Stars(s) |-> "*"] \o <<" (">> \o Digits(s) \o <<"/100)">>

\* One reply of the sentiment endpoint: data is the "data" key, Absent or
\* Present(list of sentiments), a sentiment being
\* [overallRating |-> Absent or Present(value)]
RatingReply(outcome, status, json, data) ==
    [outcome |-> outcome, status |-> status, json |-> json, data |-> data]

\* get_hotel_rating(hotel_id, access_token): every failure gives None
get_hotel_rating(reply) ==
    IF reply.outcome = "neterr" THEN None
    ELSE IF reply.status # 200 THEN None
    ELSE IF reply.json # "ok" THEN None
    ELSE LET sentiments == DictGet(reply.data, <<>>)
         IN  IF sentiments = <<>> THEN None
             ELSE LET overall_rating == DictGet(sentiments[1].overallRating, None)
                  IN  IF Truthy(overall_rating)
                      THEN Str(rating_text(overall_rating.n))
                      ELSE None

RatingNotAvailable ==
    Str(<<"R","a","t","i","n","g"," ","n","o","t"," ","a","v","a","i","l","a","b","l","e">>)

\* a record with the rating as the lookup gave it, None included:
\* C11_OneRecordPerHotel tells it from the record of the source
hotel_with_raw_rating(hotel, rating) ==
    [name |-> hotel.name, rating |-> rating, hotel_id |-> hotel.hotel_id]

\* the record get_hotels_with_ratings appends for one hotel
hotel_with_rating(hotel, rating) ==
    [name |-> hotel.name,
     rating |-> IF Truthy(rating) THEN rating ELSE RatingNotAvailable,
     hotel_id |-> hotel.hotel_id]

-----------------------------------------------------------------------------
(* The response models (travel_chat_schema.py).                            *)

\* HotelInfo(name: str, price: Optional[str], rating: Optional[str],
\* location: Optional[str]): pydantic accepts a str for a str field and
\* rejects a JSON object
HotelInfoValid(name, rating, location) ==
    /\ IsStr(name)
    /\ (rating = None \/ IsStr(rating))
    /\ (location = None \/ IsStr(location))

HotelInfo(name, rating, location) ==
    [name |-> name, price |-> None, rating |-> rating, location |-> location]

\* the list comprehension of process_message: [exc, value]
hotel_info_list(hotels_with_ratings, city_name) ==
    IF \A k \in 1..Len(hotels_with_ratings) :
           HotelInfoValid(hotels_with_ratings[k].name, hotels_with_ratings[k].rating,
                          city_name)
    THEN [exc |-> "none",
          value |-> [k \in 1..Len(hotels_with_ratings) |->
                        HotelInfo(hotels_with_ratings[k].name,
                                  hotels_with_ratings[k].rating, city_name)]]
    ELSE [exc |-> "ValidationError", value |-> <<>>]

-----------------------------------------------------------------------------
(* The texts.  A text is the sequence of its pieces: each fixed phrase of  *)
(* the source is one piece, an interpolated value is spelt out character   *)
(* by character.  The emoji of the source are written as [hotel],          *)
(* [sparkles] and [wave].                                                  *)

generate_no_hotels_response(language, city_name) ==
    IF language = french
    THEN <<"Désolé, je n'ai pas pu trouver d'hôtels disponibles à ">> \o PyStr(city_name)
         \o <<". Cette ville pourrait ne pas être disponible dans notre base de données ou il pourrait y avoir un problème temporaire. Veuillez essayer une autre ville ou réessayer plus tard. [hotel]">>
    ELSE IF language = malagasy
    THEN <<"Miala tsiny, tsy nahita hotely misy any ">> \o PyStr(city_name)
         \o <<" aho. Mety tsy misy ity tanàna ity ao amin'ny angon-draharaha na misy olana vonjimaika. Andramo tanàna hafa na avereno indray taty aoriana. [hotel]">>
    ELSE <<"Sorry, I couldn't find any hotels available in ">> \o PyStr(city_name)
         \o <<". This city might not be available in our database or there might be a temporary issue. Please try a different city or try again later. [hotel]">>

\* a text that lists no hotel: C13_SimpleTextListsHotels tells it from the
\* loop of the source
NoHotelLines(hotels, i) == <<>>

RECURSIVE HotelLines(_, _)
\* for i, hotel in enumerate(hotels, 1): f"{i}. {hotel['name']} - {hotel['rating']}\n"
HotelLines(hotels, i) ==
    IF i > Len(hotels) THEN <<>>
    ELSE Digits(i) \o <<". ">> \o PyStr(hotels[i].name) \o <<" - ">>
         \o PyStr(hotels[i].rating) \o <<"\n">> \o HotelLines(hotels, i + 1)

\* the text ends with a visible character, so .strip() removes nothing
generate_simple_hotel_response(language, city_name, hotels) ==
    IF language = french
    THEN <<"[hotel] Voici les hôtels disponibles à ">> \o PyStr(city_name)
         \o <<" (données réelles d'Amadeus):\n\n">> \o HotelLines(hotels, 1)
         \o <<"\nTotal: ">> \o Digits(Len(hotels)) \o <<" hôtels trouvés! [sparkles]">>
    ELSE IF language = malagasy
    THEN <<"[hotel] Ireto ny hotely misy any ">> \o PyStr(city_name)
         \o <<" (angon-drakitra marina avy amin'ny Amadeus):\n\n">> \o HotelLines(hotels, 1)
         \o <<"\nTotaliny: hotely ">> \o Digits(Len(hotels)) \o <<" no hita! [sparkles]">>
    ELSE <<"[hotel] Here are available hotels in ">> \o PyStr(city_name)
         \o <<" (real data from Amadeus):\n\n">> \o HotelLines(hotels, 1)
         \o <<"\nTotal ">> \o Digits(Len(hotels)) \o <<" hotels found! [sparkles]">>

\* the help keywords of get_fallback_conversational_response
help_words(language) ==
    CASE language = english ->
            <<<<"h","e","l","p">>,
              <<"w","h","a","t"," ","c","a","n"," ","y","o","u"," ","d","o">>>>
      [] language = french ->
            <<<<"a","i","d","e">>,
              <<"a","i","d","e","z","-","m","o","i">>,
              <<"q","u","e"," ","p","o","u","v","e","z","-","v","o","u","s"," ","f","a","i","r","e">>>>
      [] language = malagasy ->
            <<<<"f","a","n","a","m","p","i","a","n","a">>,
              <<"a","m","p","i","a","n","a","o">>,
              <<"i","n","o","n","a"," ","n","o"," ","v","i","t","a","n","a","o">>>>
      [] OTHER -> <<>>

\* get_fallback_conversational_response(language, message)
get_fallback_conversational_response(language, message) ==
    LET is_greeting == AnyIn(greetings(language), Lower(message))
        is_help == AnyIn(help_words(language), Lower(message))
    IN  IF language = french
        THEN IF is_greeting
             THEN <<"Bonjour! [wave] Je peux vous aider à trouver des hôtels dans n'importe quelle ville du monde. Dites-moi simplement où vous voulez séjourner!">>
             ELSE IF is_help
             THEN <<"Je peux vous montrer des listes d'hôtels par ville! [hotel] Dites simplement 'Je veux des hôtels à [nom de la ville]'. Essayez: 'Montrez-moi des hôtels à Paris'">>
             ELSE <<"Je peux vous aider à trouver des hôtels! [hotel] Dites-moi dans quelle ville vous êtes intéressé. Exemple: 'Je veux des hôtels à Tokyo'">>
        ELSE IF language = malagasy
        THEN IF is_greeting
             THEN <<"Manao ahoana! [wave] Afaka manampy anao hitady hotely any amin'ny tanàna rehetra eran'izao tontolo izao aho. Lazao fotsiny hoe aiza no tianao hivonana!">>
             ELSE IF is_help
             THEN <<"Afaka mampiseho lisitry ny hotely isaky ny tanàna aho! [hotel] Lazao fotsiny hoe 'Tiako hotely any [anaran'ny tanàna]'. Andramo: 'Asehoy ny hotely any Antananarivo'">>
             ELSE <<"Afaka manampy anao hitady hotely aho! [hotel] Lazao ahy hoe amin'ny tanàna inona no liana ianao. Ohatra: 'Tiako hotely any Paris'">>
        ELSE IF is_greeting
             THEN <<"Hello! [wave] I can help you find hotels in any city worldwide. Just tell me where you want to stay!">>
             ELSE IF is_help
             THEN <<"I can show you hotel lists for any city! [hotel] Just say 'I want hotels in [city name]'. Try: 'Show me hotels in Paris'">>
             ELSE <<"I can help you find hotels! [hotel] Just tell me which city you're interested in. Example: 'Hotels in London please'">>

\* One reply of the chat-completion endpoint to a composer's prompt:
\*   json     "invalid" (response.json() raises), "nochoices" (the path to
\*            the content is missing) or "ok"
\*   content  the content: a str, or None for a null (.strip() then raises)
GroqTextReply(outcome, status, json, content) ==
    [outcome |-> outcome, status |-> status, json |-> json, content |-> content]

NoGroqTextReply == GroqTextReply("none", 0, "invalid", None)

\* the try blocks of the two composers share their shape: what the call
\* gives, [exc |-> it raised, ai |-> it returned the service's text, text]
compose_try(key, reply) ==
    IF ~key THEN [exc |-> FALSE, ai |-> FALSE, text |-> <<>>]
    ELSE IF reply.outcome = "neterr" THEN [exc |-> TRUE, ai |-> FALSE, text |-> <<>>]
    ELSE IF reply.status = 200
    THEN IF reply.json # "ok" \/ ~IsStr(reply.content)
         THEN [exc |-> TRUE, ai |-> FALSE, text |-> <<>>]
         ELSE [exc |-> FALSE, ai |-> TRUE, text |-> Strip(reply.content.v)]
    ELSE [exc |-> FALSE, ai |-> FALSE, text |-> <<>>]

\* generate_conversational_response(language, message)
generate_conversational_response(language, message, key, reply) ==
    LET try == compose_try(key, reply)
    IN  IF try.ai THEN try.text
        ELSE get_fallback_conversational_response(language, message)

\* generate_multilingual_hotel_response(language, city_name, hotels)
generate_multilingual_hotel_response(language, city_name, hotels, key, reply) ==
    LET try == compose_try(key, reply)
    IN  IF try.ai THEN try.text
        ELSE generate_simple_hotel_response(language, city_name, hotels)

-----------------------------------------------------------------------------
(* process_message and the /chat route.                                    *)

PyList(xs) == [t |-> "list", v |-> xs]

\* ChatResponse(response=..., hotels=...), returned by process_message
ChatResponse(response, hotels) ==
    [outcome |-> "returned", exc |-> "none", response |-> response, hotels |-> hotels]

\* except clauses that swallow the error and answer that no hotels were found:
\* C3_AuthFailureAborts tells them from the clauses of the source
except_to_no_hotels(exc, language, city_name) ==
    ChatResponse(generate_no_hotels_response(language, city_name), None)

\* the except clauses of process_message: `except ValueError as e: raise e`,
\* `except ConnectionError as e: raise e`, `except Exception as e: ... raise`
process_message_except(exc, language, city_name) ==
    [outcome |-> "raised", exc |-> exc, response |-> <<>>, hotels |-> None]

\* `if not city_code:` of process_message
city_not_found(language, city_name) ==
    ChatResponse(generate_no_hotels_response(language, city_name), None)

\* an else branch that answers with a curated list for the city:
\* C9_EmptyLookupGivesNoHotels tells it from the branch of the source
static_fallback_hotels(language, city_name) ==
    ChatResponse(generate_no_hotels_response(language, city_name),
                 PyList(<<HotelInfo(Str(<<"H","1">>), None, city_name)>>))

\* the else branch of `if hotels_data:` of process_message
no_hotels_found(language, city_name) ==
    ChatResponse(generate_no_hotels_response(language, city_name), None)

\* chat_with_bot: the HTTP status of the answer
chat_status(outcome, exc) ==
    IF outcome = "returned" THEN 200
    ELSE IF IsValueError(exc) THEN 400
    ELSE IF IsConnectionError(exc) THEN 503
    ELSE 500

-----------------------------------------------------------------------------
(* Bounds and the inputs drawn within them.                                *)

\* the clock runs from 0 to MaxTime
MaxTime == 3

\* the longest "data" list of a hotels-by-city reply, when the lookup is
\* checked on its own
MaxUpstream == 9

\* the longest hotel list the composers are checked on, on their own
MaxComposeHotels == 2

\* the scores of the sentiment endpoint run from 0 to MaxScore
MaxScore == 100

\* the longest list get_hotels_with_ratings is checked on, on its own
MaxEnrich == 3

\* the longest "data" list of a hotels-by-city reply within a request
MaxPipelineHotels == 2

Callers == {"c1", "c2"}

Tokens == {Str(<<"t","1">>), Str(<<"t","2">>)}

ExpiresIns == {299, 300, 301, 302}

TokenReplies ==
    {TokenReply("connect", 0, "invalid", Absent, Absent),
     TokenReply("timeout", 0, "invalid", Absent, Absent),
     TokenReply("http", 401, "ok", Absent, Absent),
     TokenReply("http", 200, "invalid", Absent, Absent),
     TokenReply("http", 200, "ok", Absent, Present(301))}
    \cup {TokenReply("http", 200, "ok", Present(tok), Absent) : tok \in Tokens}
    \cup {TokenReply("http", 200, "ok", Present(tok), Present(e)) :
            tok \in Tokens, e \in ExpiresIns}

C_New_York == <<"N","e","w"," ","Y","o","r","k">>

C_PAR == <<"P","A","R">>

T_reply == <<" ","V","o","i","l","a","!"," ">>

PipelineMessages ==
    {W_hello, M_hotels_paris, M_hotels_oslo, M_hotels_germany, M_fr_paris}

PipelineDetectReplies ==
    {GroqDetectReply("neterr", 0, "invalid", "invalid", Absent, Absent),
     GroqDetectReply("http", 500, "invalid", "invalid", Absent, Absent),
     GroqDetectReply("http", 200, "ok", "object", Present(french), Present(Str(C_Paris))),
     GroqDetectReply("http", 200, "ok", "object", Present(Str(L_spanish)),
                     Present(Str(C_Paris))),
     GroqDetectReply("http", 200, "ok", "object", Present(english),
                     Present(Dict(<<"x">>))),
     GroqDetectReply("http", 200, "ok", "object", Absent, Present(None))}

Location(iataCode) == [iataCode |-> iataCode]

CityReplies ==
    {CityReply("neterr", 0, "invalid", Absent),
     CityReply("http", 404, "ok", Absent),
     CityReply("http", 200, "invalid", Absent),
     CityReply("http", 200, "nonobject", Absent),
     CityReply("http", 200, "ok", Absent),
     CityReply("http", 200, "ok", Present(<<>>)),
     CityReply("http", 200, "ok", Present(<<Location(Absent)>>)),
     CityReply("http", 200, "ok", Present(<<Location(Present(Str(C_PAR)))>>))}

\* the hotel ids, by position in the upstream list
IdChars == <<"1","2","3","4","5","6","7","8","9","a","b","c">>

\* the k-th entry of an upstream list, of a kind:
\*   "ok"       a name and a hotel id
\*   "noname"   no "name" key
\*   "noid"     an empty hotel id
\*   "badname"  a name that is a JSON object
\*   "junk"     no JSON object at all
EntryOf(kind, k) ==
    CASE kind = "ok" ->
            HotelEntry("dict", Present(Str(<<"H", IdChars[k]>>)), Present(Str(<<IdChars[k]>>)))
      [] kind = "noname" ->
            HotelEntry("dict", Absent, Present(Str(<<IdChars[k]>>)))
      [] kind = "noid" ->
            HotelEntry("dict", Present(Str(<<"H", IdChars[k]>>)), Present(Str(<<>>)))
      [] kind = "badname" ->
            HotelEntry("dict", Present(Dict(<<"x">>)), Present(Str(<<IdChars[k]>>)))
      [] kind = "junk" ->
            HotelEntry("junk", Absent, Absent)

\* the upstream lists of at most max entries, each of one of the kinds
HotelLists(max, kinds) ==
    UNION { { [k \in 1..len |-> EntryOf(f[k], k)] : f \in [1..len -> kinds] } :
            len \in 0..max }

\* a list of n entries, all "ok" but the k-th
AllOkBut(n, k, kind) == [j \in 1..n |-> EntryOf(IF j = k THEN kind ELSE "ok", j)]

HotelFailureReplies ==
    {HotelReply("neterr", 0, "invalid", "absent", <<>>),
     HotelReply("http", 500, "ok", "absent", <<>>),
     HotelReply("http", 200, "invalid", "absent", <<>>),
     HotelReply("http", 200, "ok", "absent", <<>>),
     HotelReply("http", 200, "ok", "nonlist", <<>>)}

\* the kinds of entry of the lists the lookup is checked on
UpstreamKinds == {"ok", "noname", "noid"}

\* the list of len entries whose kinds f gives
ListOf(len, f) == [k \in 1..len |-> EntryOf(f[k], k)]

PipelineHotelReplies ==
    HotelFailureReplies
    \cup {HotelReply("http", 200, "ok", "list", hs) :
            hs \in HotelLists(MaxPipelineHotels, {"ok", "noname", "badname", "junk"})}

Sentiment(overallRating) == [overallRating |-> overallRating]

RatingReplies ==
    {RatingReply("neterr", 0, "invalid", Absent),
     RatingReply("http", 404, "ok", Absent),
     RatingReply("http", 200, "invalid", Absent),
     RatingReply("http", 200, "ok", Present(<<>>)),
     RatingReply("http", 200, "ok", Present(<<Sentiment(Absent)>>)),
     RatingReply("http", 200, "ok", Present(<<Sentiment(Present(PyInt(0)))>>)),
     RatingReply("http", 200, "ok", Present(<<Sentiment(Present(PyInt(85)))>>))}

GroqTextReplies ==
    {GroqTextReply("neterr", 0, "invalid", None),
     GroqTextReply("http", 500, "invalid", None),
     GroqTextReply("http", 200, "invalid", None),
     GroqTextReply("http", 200, "nochoices", None),
     GroqTextReply("http", 200, "ok", None),
     GroqTextReply("http", 200, "ok", Str(T_reply))}

-----------------------------------------------------------------------------
(* The state machines.                                                     *)

\* a caller of get_access_token:
\*   pc       "idle", "waiting" (the POST is sent, the reply is awaited), "done"
\*   valid    whether, when the call began, a token and an expiry were cached
\*            and the clock was before the expiry
\*   cached   the cached token when the call began
\*   began    the time the call began
\*   sent     the number of POSTs of the call
\*   replied  the time the reply arrived
\*   expires_in   the "expires_in" key of the reply
\*   outcome, exc, result   how the call ended
IdleCaller ==
    [pc |-> "idle", valid |-> FALSE, cached |-> None,
     began |-> 0, sent |-> 0, replied |-> 0, expires_in |-> Absent,
     outcome |-> "none", exc |-> "none", result |-> None]

IdleCallers == [c \in Callers |-> IdleCaller]

\* a /chat request:
\*   pc       the step process_message is at
\*   auth     how the token fetch went: "none" (not made), "hit", "exchanged",
\*            or the failure of the exchange
\*   lookups, rating_calls   the hotel lookups and rating lookups made
\*   outcome, exc, response, hotels   what process_message returned or raised
\*   status   the HTTP status of the answer
\*   steps    the steps taken, in order
IdleReq ==
    [pc |-> "idle", message |-> <<>>, language |-> None, city_name |-> None,
     auth |-> "none", access_token |-> None, city_code |-> None,
     hotels_data |-> <<>>, hotels_with_ratings |-> <<>>, lookups |-> 0,
     rating_calls |-> 0, outcome |-> "none", exc |-> "none", response |-> <<>>,
     hotels |-> None, status |-> 0, steps |-> <<>>]

\* one call of detect_language_and_extract_city
IdleDet ==
    [pc |-> "idle", message |-> <<>>, reply |-> NoGroqDetectReply, called |-> FALSE,
     outcome |-> "none", value |-> <<None, None>>]

\* one call of get_hotels_by_city
IdleHot ==
    [pc |-> "idle", reply |-> HotelReply("none", 0, "invalid", "absent", <<>>),
     outcome |-> "none", value |-> <<>>]

\* one call of get_hotels_with_ratings:
\*   hotels_data          the argument
\*   hotels_with_ratings  the list being built
\*   calls                the hotel ids the rating lookups were made for, in order
\*   replies              the replies of the sentiment endpoint, in order
IdleEnr ==
    [pc |-> "idle", hotels_data |-> <<>>, hotels_with_ratings |-> <<>>, calls |-> <<>>,
     replies |-> <<>>]

\* two calls of get_hotel_rating: the replies and what each call returned
IdleRat == [pc |-> "idle", replies |-> <<>>, values |-> <<>>]

\* one call of generate_simple_hotel_response or of
\* generate_multilingual_hotel_response
IdleCmp ==
    [pc |-> "idle", op |-> "none", language |-> None, city_name |-> None,
     hotels |-> <<>>, reply |-> NoGroqTextReply, text |-> <<>>]

\* one call of health_check: pc, and the bool it returned
IdleHealth == [pc |-> "idle", result |-> FALSE]

\* time passes
Tick ==
    /\ now < MaxTime
    /\ now' = now + 1
    /\ UNCHANGED <<token, token_expiry, groq_api_key, callers, req, det, hot,
                 enr, rat, cmp, health>>

(* ---- get_access_token, called concurrently ---- *)

\* how the exchange failed, for the record
ExchangeFailure(reply) ==
    IF reply.outcome # "http" THEN reply.outcome
    ELSE IF reply.status # 200 THEN "non200"
    ELSE IF reply.json # "ok" THEN "invalid_json"
    ELSE "missing_key"

\* a call begins: the cache test, and on a miss the POST is sent
TokenCall(c) ==
    /\ callers[c].pc \in {"idle", "done"}
    /\ LET entry == [IdleCaller EXCEPT
                        !.valid = (token # None /\ token_expiry # None
                                   /\ now < token_expiry.at),
                        !.cached = token, !.began = now]
       IN  IF CacheValid(token, token_expiry, now)
           THEN callers' = [callers EXCEPT ![c] =
                    [entry EXCEPT !.pc = "done", !.outcome = "returned",
                                  !.result = token]]
           ELSE callers' = [callers EXCEPT ![c] =
                    [entry EXCEPT !.pc = "waiting", !.sent = 1]]
    /\ UNCHANGED <<token, token_expiry, now, groq_api_key, req, det, hot,
                 enr, rat, cmp, health>>

\* the reply arrives: lines 57-63 run without another await
TokenReplyArrives(c, reply) ==
    /\ callers[c].pc = "waiting"
    /\ LET x == token_exchange(reply, token, token_expiry, now)
       IN  /\ token' = x.token
           /\ token_expiry' = x.token_expiry
           /\ callers' = [callers EXCEPT ![c] =
                  [@ EXCEPT !.pc = "done", !.replied = now,
                            !.expires_in = reply.expires_in,
                            !.outcome = IF x.exc = "none" THEN "returned" ELSE "raised",
                            !.exc = x.exc, !.result = x.result]]
    /\ UNCHANGED <<now, groq_api_key, req, det, hot, enr, rat, cmp, health>>

InitToken ==
    /\ token = None
    /\ token_expiry = None
    /\ now = 0
    /\ groq_api_key = FALSE
    /\ callers = IdleCallers
    /\ req = IdleReq
    /\ det = IdleDet
    /\ hot = IdleHot
    /\ enr = IdleEnr
    /\ rat = IdleRat
    /\ cmp = IdleCmp
    /\ health = IdleHealth

NextToken ==
    \/ \E c \in Callers : TokenCall(c)
    \/ \E c \in Callers, reply \in TokenReplies : TokenReplyArrives(c, reply)
    \/ Tick

SpecToken == InitToken /\ [][NextToken]_vars

(* ---- detect_language_and_extract_city, on its own ---- *)

Detect ==
    /\ det.pc = "start"
    /\ \E reply \in (IF groq_api_key THEN GroqDetectReplies ELSE {NoGroqDetectReply}) :
          LET r == detect_language_and_extract_city(det.message, groq_api_key, reply)
          IN  det' = [det EXCEPT !.pc = "done", !.reply = reply, !.called = r.called,
                                 !.outcome = r.outcome, !.value = r.value]
    /\ UNCHANGED <<token, token_expiry, now, groq_api_key, callers, req, hot,
                 enr, rat, cmp, health>>

InitDetect ==
    /\ token = None
    /\ token_expiry = None
    /\ now = 0
    /\ groq_api_key \in BOOLEAN
    /\ callers = IdleCallers
    /\ req = IdleReq
    /\ det \in {[IdleDet EXCEPT !.pc = "start", !.message = m] : m \in Messages}
    /\ hot = IdleHot
    /\ enr = IdleEnr
    /\ rat = IdleRat
    /\ cmp = IdleCmp
    /\ health = IdleHealth

NextDetect == Detect

SpecDetect == InitDetect /\ [][NextDetect]_vars

(* ---- the detector, then generate_conversational_response ---- *)

\* await self.generate_conversational_response(language, message), with
\* the language the detector gave
ChatCompose ==
    /\ det.pc = "done"
    /\ cmp.pc = "idle"
    /\ \E reply \in (IF groq_api_key THEN GroqTextReplies ELSE {NoGroqTextReply}) :
          cmp' = [cmp EXCEPT !.pc = "done", !.op = "chat", !.reply = reply,
                     !.language = det.value[1], !.city_name = det.value[2],
                     !.text = generate_conversational_response(
                                  det.value[1], det.message, groq_api_key, reply)]
    /\ UNCHANGED <<token, token_expiry, now, groq_api_key, callers, req, det, hot,
                 enr, rat, health>>

NextChat == Detect \/ ChatCompose

SpecChat == InitDetect /\ [][NextChat]_vars

(* ---- get_hotels_by_city, on its own ---- *)

HotelLookup ==
    /\ hot.pc = "start"
    /\ LET r == get_hotels_by_city(hot.reply)
       IN  hot' = [hot EXCEPT !.pc = "done", !.outcome = r.outcome, !.value = r.value]
    /\ UNCHANGED <<token, token_expiry, now, groq_api_key, callers, req, det,
                 enr, rat, cmp, health>>

InitHotels ==
    /\ token = None
    /\ token_expiry = None
    /\ now = 0
    /\ groq_api_key = FALSE
    /\ callers = IdleCallers
    /\ req = IdleReq
    /\ det = IdleDet
    /\ enr = IdleEnr
    /\ rat = IdleRat
    /\ cmp = IdleCmp
    /\ health = IdleHealth
    /\ \/ \E reply \in HotelFailureReplies :
             hot = [IdleHot EXCEPT !.pc = "start", !.reply = reply]
       \/ \E len \in 0..MaxUpstream : \E f \in [1..len -> UpstreamKinds] :
             hot = [IdleHot EXCEPT !.pc = "start",
                       !.reply = HotelReply("http", 200, "ok", "list", ListOf(len, f))]
       \/ \E k \in 1..MaxUpstream :
             hot = [IdleHot EXCEPT !.pc = "start",
                       !.reply = HotelReply("http", 200, "ok", "list",
                                            AllOkBut(MaxUpstream, k, "junk"))]

NextHotels == HotelLookup

SpecHotels == InitHotels /\ [][NextHotels]_vars

(* ---- the /chat route and process_message, one request at a time ---- *)

\* process_message ends: what it returned or raised goes to the route
Finish(r, result, step) ==
    [r EXCEPT !.pc = "route", !.outcome = result.outcome, !.exc = result.exc,
              !.response = result.response, !.hotels = result.hotels,
              !.steps = Append(@, step)]

\* POST /chat arrives with a message
ReqStart ==
    /\ req.pc \in {"idle", "done"}
    /\ \E m \in PipelineMessages :
          req' = [IdleReq EXCEPT !.pc = "detect", !.message = m]
    /\ UNCHANGED <<token, token_expiry, now, groq_api_key, callers, det, hot,
                 enr, rat, cmp, health>>

\* a request that fetches a token whether or not a city was extracted:
\* C18_StepsInOrderThenDone tells it from the branch of the source
DetectedThenFetch(r) ==
    IF r.outcome = "raised"
    THEN Finish(req, process_message_except("Exception", None, None), "detect")
    ELSE [req EXCEPT !.language = r.value[1], !.city_name = r.value[2],
                     !.pc = "auth", !.steps = Append(@, "detect")]

\* the request after the detector gave r
Detected(r) ==
    IF r.outcome = "raised"
    THEN Finish(req, process_message_except("Exception", None, None), "detect")
    ELSE [req EXCEPT !.language = r.value[1], !.city_name = r.value[2],
                     !.pc = IF Truthy(r.value[2]) THEN "auth" ELSE "chat",
                     !.steps = Append(@, "detect")]

\* language, city_name = await self.detect_language_and_extract_city(message)
ReqDetect ==
    /\ req.pc = "detect"
    /\ \E reply \in (IF groq_api_key THEN PipelineDetectReplies ELSE {NoGroqDetectReply}) :
          req' = Detected(detect_language_and_extract_city(req.message, groq_api_key,
                                                            reply))
    /\ UNCHANGED <<token, token_expiry, now, groq_api_key, callers, det, hot,
                 enr, rat, cmp, health>>

\* access_token = await self.get_access_token(): the cache test
ReqAuth ==
    /\ req.pc = "auth"
    /\ IF CacheValid(token, token_expiry, now)
       THEN req' = [req EXCEPT !.pc = "resolve", !.auth = "hit",
                               !.access_token = token, !.steps = Append(@, "auth")]
       ELSE req' = [req EXCEPT !.pc = "exchange", !.steps = Append(@, "auth")]
    /\ UNCHANGED <<token, token_expiry, now, groq_api_key, callers, det, hot,
                 enr, rat, cmp, health>>

\* the reply of the token endpoint arrives
ReqExchange ==
    /\ req.pc = "exchange"
    /\ \E reply \in TokenReplies :
          LET x == token_exchange(reply, token, token_expiry, now)
          IN  /\ token' = x.token
              /\ token_expiry' = x.token_expiry
              /\ IF x.exc = "none"
                 THEN req' = [req EXCEPT !.pc = "resolve", !.auth = "exchanged",
                                         !.access_token = x.result]
                 ELSE req' = [Finish(req,
                                     process_message_except(x.exc, req.language,
                                                            req.city_name),
                                     "raise")
                                EXCEPT !.auth = ExchangeFailure(reply)]
    /\ UNCHANGED <<now, groq_api_key, callers, det, hot, enr, rat, cmp, health>>

\* city_code = await self.get_city_code(city_name, access_token)
ReqResolve ==
    /\ req.pc = "resolve"
    /\ \E reply \in CityReplies :
          LET code == get_city_code(reply)
          IN  IF ~Truthy(code)
              THEN req' = Finish([req EXCEPT !.city_code = code],
                                 city_not_found(req.language, req.city_name), "resolve")
              ELSE req' = [req EXCEPT !.pc = "lookup", !.city_code = code,
                                      !.steps = Append(@, "resolve")]
    /\ UNCHANGED <<token, token_expiry, now, groq_api_key, callers, det, hot,
                 enr, rat, cmp, health>>

\* hotels_data = await self.get_hotels_by_city(city_code, access_token)
ReqLookup ==
    /\ req.pc = "lookup"
    /\ \E reply \in PipelineHotelReplies :
          LET r == get_hotels_by_city(reply)
              looked == [req EXCEPT !.lookups = @ + 1]
          IN  IF r.outcome = "raised"
              THEN req' = Finish(looked,
                                 process_message_except("Exception", req.language,
                                                        req.city_name), "lookup")
              ELSE IF r.value # <<>>
              THEN req' = [looked EXCEPT !.pc = "enrich", !.hotels_data = r.value,
                                         !.steps = Append(@, "lookup")]
              ELSE req' = Finish(looked, no_hotels_found(req.language, req.city_name),
                                 "lookup")
    /\ UNCHANGED <<token, token_expiry, now, groq_api_key, callers, det, hot,
                 enr, rat, cmp, health>>

\* get_hotels_with_ratings: the rating lookup of the next hotel; after the
\* last one the HotelInfo objects are built
ReqRating ==
    /\ req.pc = "enrich"
    /\ \E reply \in RatingReplies :
          LET hotel == req.hotels_data[Len(req.hotels_with_ratings) + 1]
              rated == Append(req.hotels_with_ratings,
                              hotel_with_rating(hotel, get_hotel_rating(reply)))
              r == [req EXCEPT !.hotels_with_ratings = rated, !.rating_calls = @ + 1]
              infos == hotel_info_list(rated, req.city_name)
          IN  IF Len(rated) < Len(req.hotels_data)
              THEN req' = r
              ELSE IF infos.exc # "none"
              THEN req' = Finish(r, process_message_except(infos.exc, req.language,
                                                           req.city_name), "enrich")
              ELSE req' = [r EXCEPT !.pc = "compose", !.hotels = PyList(infos.value),
                                    !.steps = Append(@, "enrich")]
    /\ UNCHANGED <<token, token_expiry, now, groq_api_key, callers, det, hot,
                 enr, rat, cmp, health>>

\* response_text = await self.generate_multilingual_hotel_response(...)
ReqCompose ==
    /\ req.pc = "compose"
    /\ \E reply \in (IF groq_api_key THEN GroqTextReplies ELSE {NoGroqTextReply}) :
          req' = Finish(req,
                        ChatResponse(generate_multilingual_hotel_response(
                                         req.language, req.city_name,
                                         req.hotels_with_ratings, groq_api_key, reply),
                                     req.hotels),
                        "compose")
    /\ UNCHANGED <<token, token_expiry, now, groq_api_key, callers, det, hot,
                 enr, rat, cmp, health>>

\* response_text = await self.generate_conversational_response(language, message)
ReqChat ==
    /\ req.pc = "chat"
    /\ \E reply \in (IF groq_api_key THEN GroqTextReplies ELSE {NoGroqTextReply}) :
          req' = Finish(req,
                        ChatResponse(generate_conversational_response(
                                         req.language, req.message, groq_api_key, reply),
                                     None),
                        "chat")
    /\ UNCHANGED <<token, token_expiry, now, groq_api_key, callers, det, hot,
                 enr, rat, cmp, health>>

\* chat_with_bot answers
ReqRoute ==
    /\ req.pc = "route"
    /\ req' = [req EXCEPT !.pc = "done", !.status = chat_status(req.outcome, req.exc)]
    /\ UNCHANGED <<token, token_expiry, now, groq_api_key, callers, det, hot,
                 enr, rat, cmp, health>>

Init ==
    /\ token = None
    /\ token_expiry = None
    /\ now = 0
    /\ groq_api_key \in BOOLEAN
    /\ callers = IdleCallers
    /\ req = IdleReq
    /\ det = IdleDet
    /\ hot = IdleHot
    /\ enr = IdleEnr
    /\ rat = IdleRat
    /\ cmp = IdleCmp
    /\ health = IdleHealth

Next ==
    \/ ReqStart
    \/ ReqDetect
    \/ ReqAuth
    \/ ReqExchange
    \/ ReqResolve
    \/ ReqLookup
    \/ ReqRating
    \/ ReqCompose
    \/ ReqChat
    \/ ReqRoute
    \/ Tick

Spec == Init /\ [][Next]_vars

\* a step of the request in progress: each await of process_message ends,
\* with a reply or with an exception (the HTTP clients run under a timeout)
ReqStep ==
    \/ ReqDetect
    \/ ReqAuth
    \/ ReqExchange
    \/ ReqResolve
    \/ ReqLookup
    \/ ReqRating
    \/ ReqCompose
    \/ ReqChat
    \/ ReqRoute

\* requests one after the other
NextFair ==
    \/ ReqStart
    \/ ReqStep

\* The request pipeline with every begun request carried on.  The clock
\* stands still: a request reads it only in the cache test and for the
\* expiry it stores, and both a hit and a miss of a later request remain
\* (an exchange stores an expiry before, at, or after the present).
SpecFair == Init /\ [][NextFair]_vars /\ WF_vars(ReqStep)

(* ---- health_check, beside a /chat request ---- *)

\* health_check begins: get_access_token tests the cache, and on a miss
\* sends the POST; on a hit health_check returns bool(token)
HealthStart ==
    /\ health.pc = "idle"
    /\ IF CacheValid(token, token_expiry, now)
       THEN health' = [health EXCEPT !.pc = "done", !.result = Truthy(token)]
       ELSE health' = [health EXCEPT !.pc = "waiting"]
    /\ UNCHANGED <<token, token_expiry, now, groq_api_key, callers, req, det, hot,
                 enr, rat, cmp>>

\* the reply of the token endpoint arrives: health_check returns bool(token),
\* or False when get_access_token raised
HealthReply ==
    /\ health.pc = "waiting"
    /\ \E reply \in TokenReplies :
          LET x == token_exchange(reply, token, token_expiry, now)
          IN  /\ token' = x.token
              /\ token_expiry' = x.token_expiry
              /\ health' = [health EXCEPT !.pc = "done",
                                          !.result = (x.exc = "none" /\ Truthy(x.result))]
    /\ UNCHANGED <<now, groq_api_key, callers, req, det, hot, enr, rat, cmp>>

NextFrame ==
    \/ Next
    \/ HealthStart
    \/ HealthReply

SpecFrame == Init /\ [][NextFrame]_vars

(* ---- get_hotels_with_ratings, on its own ---- *)

\* for hotel in hotels_data: rating = await self.get_hotel_rating(...), append
EnrichLookup ==
    /\ enr.pc = "loop"
    /\ Len(enr.hotels_with_ratings) < Len(enr.hotels_data)
    /\ \E reply \in RatingReplies :
          LET hotel == enr.hotels_data[Len(enr.hotels_with_ratings) + 1]
          IN  enr' = [enr EXCEPT
                        !.hotels_with_ratings =
                            Append(@, hotel_with_rating(hotel, get_hotel_rating(reply))),
                        !.calls = Append(@, hotel.hotel_id),
                        !.replies = Append(@, reply)]
    /\ UNCHANGED <<token, token_expiry, now, groq_api_key, callers, req, det, hot,
                 rat, cmp, health>>

\* return hotels_with_ratings
EnrichReturn ==
    /\ enr.pc = "loop"
    /\ Len(enr.hotels_with_ratings) = Len(enr.hotels_data)
    /\ enr' = [enr EXCEPT !.pc = "done"]
    /\ UNCHANGED <<token, token_expiry, now, groq_api_key, callers, req, det, hot,
                 rat, cmp, health>>

\* the argument is a list get_hotels_by_city can return: records with a
\* truthy name (a str, or a JSON object) and a hotel id
InitEnrich ==
    /\ token = None
    /\ token_expiry = None
    /\ now = 0
    /\ groq_api_key = FALSE
    /\ callers = IdleCallers
    /\ req = IdleReq
    /\ det = IdleDet
    /\ hot = IdleHot
    /\ rat = IdleRat
    /\ cmp = IdleCmp
    /\ health = IdleHealth
    /\ \E len \in 0..MaxEnrich : \E f \in [1..len -> {"ok", "badname"}] :
          enr = [IdleEnr EXCEPT !.pc = "loop",
                    !.hotels_data = [k \in 1..len |-> HotelRecord(EntryOf(f[k], k))]]

NextEnrich == EnrichLookup \/ EnrichReturn

SpecEnrich == InitEnrich /\ [][NextEnrich]_vars

(* ---- get_hotel_rating, on its own, called on two scores ---- *)

\* the reply of the sentiment endpoint with the score s, or with none (-1)
ScoreReply(s) ==
    RatingReply("http", 200, "ok",
                Present(<<Sentiment(IF s < 0 THEN Absent ELSE Present(PyInt(s)))>>))

\* rating = await self.get_hotel_rating(hotel_id, access_token)
Rate ==
    /\ rat.pc = "start"
    /\ Len(rat.values) < Len(rat.replies)
    /\ LET value == get_hotel_rating(rat.replies[Len(rat.values) + 1])
       IN  rat' = [rat EXCEPT !.values = Append(@, value),
                              !.pc = IF Len(rat.values) + 1 = Len(rat.replies)
                                     THEN "done" ELSE "start"]
    /\ UNCHANGED <<token, token_expiry, now, groq_api_key, callers, req, det, hot,
                 enr, cmp, health>>

InitRating ==
    /\ token = None
    /\ token_expiry = None
    /\ now = 0
    /\ groq_api_key = FALSE
    /\ callers = IdleCallers
    /\ req = IdleReq
    /\ det = IdleDet
    /\ hot = IdleHot
    /\ enr = IdleEnr
    /\ cmp = IdleCmp
    /\ health = IdleHealth
    /\ \E s1, s2 \in -1..MaxScore :
          rat = [IdleRat EXCEPT !.pc = "start",
                                !.replies = <<ScoreReply(s1), ScoreReply(s2)>>]

NextRating == Rate

SpecRating == InitRating /\ [][NextRating]_vars

(* ---- the two hotel-reply composers, on their own ---- *)

\* the ratings get_hotels_with_ratings gives
RatingTexts == {RatingNotAvailable, Str(rating_text(85))}

\* the k-th record of a list get_hotels_with_ratings returns
RatedHotel(k, rating) ==
    [name |-> Str(<<"H", IdChars[k]>>), rating |-> rating,
     hotel_id |-> Str(<<IdChars[k]>>)]

\* self.generate_simple_hotel_response(language, city_name, hotels)
ComposeSimple ==
    /\ cmp.pc = "start"
    /\ cmp' = [cmp EXCEPT !.pc = "done", !.op = "simple",
                  !.text = generate_simple_hotel_response(cmp.language, cmp.city_name,
                                                          cmp.hotels)]
    /\ UNCHANGED <<token, token_expiry, now, groq_api_key, callers, req, det, hot,
                 enr, rat, health>>

\* await self.generate_multilingual_hotel_response(language, city_name, hotels)
ComposeMultilingual ==
    /\ cmp.pc = "start"
    /\ \E reply \in (IF groq_api_key THEN GroqTextReplies ELSE {NoGroqTextReply}) :
          cmp' = [cmp EXCEPT !.pc = "done", !.op = "multilingual", !.reply = reply,
                     !.text = generate_multilingual_hotel_response(
                                  cmp.language, cmp.city_name, cmp.hotels,
                                  groq_api_key, reply)]
    /\ UNCHANGED <<token, token_expiry, now, groq_api_key, callers, req, det, hot,
                 enr, rat, health>>

InitCompose ==
    /\ token = None
    /\ token_expiry = None
    /\ now = 0
    /\ groq_api_key \in BOOLEAN
    /\ callers = IdleCallers
    /\ req = IdleReq
    /\ det = IdleDet
    /\ hot = IdleHot
    /\ enr = IdleEnr
    /\ rat = IdleRat
    /\ health = IdleHealth
    /\ \E language \in SupportedLanguages \cup {Str(L_spanish), None},
          city \in {C_Paris, C_New_York}, len \in 0..MaxComposeHotels :
          \E f \in [1..len -> RatingTexts] :
             cmp = [IdleCmp EXCEPT !.pc = "start", !.language = language,
                       !.city_name = Str(city),
                       !.hotels = [k \in 1..len |-> RatedHotel(k, f[k])]]

NextCompose == ComposeSimple \/ ComposeMultilingual

SpecCompose == InitCompose /\ [][NextCompose]_vars

-----------------------------------------------------------------------------
(* The properties.                                                         *)

(* ---- C1 ---- *)

\* C1: of two get_access_token calls made one after the other, the second one
\* beginning while a token and an expiry are cached and the clock is before
\* the expiry, only the first exchanges: the second sends no request and
\* returns the cached token.  A call that begins otherwise sends exactly one
\* request.  Checked for every call of every caller (SpecToken).
C1_SecondCallUsesCache ==
    \A c \in Callers :
        callers[c].pc # "idle" =>
            IF callers[c].valid
            THEN /\ callers[c].pc = "done"
                 /\ callers[c].sent = 0
                 /\ callers[c].outcome = "returned"
                 /\ callers[c].result = callers[c].cached
            ELSE callers[c].sent = 1

\* C1: a first call has exchanged and returned a token, and a second call,
\* begun before the expiry that exchange stored, has ended
C1_Witness_TwoCallsOneExchange ==
    \E c1, c2 \in Callers :
        /\ c1 # c2
        /\ callers[c1].pc = "done" /\ callers[c1].sent = 1
        /\ callers[c1].outcome = "returned"
        /\ callers[c2].pc = "done" /\ callers[c2].valid
        /\ callers[c2].began >= callers[c1].began
        /\ callers[c2].cached = callers[c1].result
        /\ token_expiry # None /\ callers[c2].began < token_expiry.at

(* ---- C2, C3, C4, C5: one /chat request ---- *)

\* the ways the token exchange fails
AuthFailures == {"connect", "timeout", "non200", "invalid_json", "missing_key"}

\* the request has been answered after the city lookup gave no location code
EndedAtResolve ==
    /\ req.pc = "done"
    /\ req.steps # <<>>
    /\ req.steps[Len(req.steps)] = "resolve"

\* C2: when a city was extracted and the token exchange fails with a non-200
\* reply, a connection failure or a timeout, process_message raises and the
\* /chat endpoint answers with HTTP 503.
C2_AuthFailureAnswers503 ==
    (req.pc = "done" /\ req.auth \in {"non200", "connect", "timeout"}) =>
        (req.outcome = "raised" /\ req.status = 503)

\* C2: the token endpoint refused the connection; process_message raised
\* httpx.ConnectError, which is no ConnectionError, and the endpoint answered 500
C2_Witness_ConnectFailure500 ==
    /\ req.pc = "done"
    /\ Truthy(req.city_name)
    /\ req.auth = "connect"
    /\ req.outcome = "raised"
    /\ req.exc = "ConnectError"
    /\ req.status = 500

\* C3 (as amended): a failure at the AUTH step aborts the request: the error
\* of the token exchange is raised, with no response text and no hotels; a
\* request that ends at RESOLVE_CITY returns the 'no hotels found' message for
\* the extracted city.
C3_AuthFailureAborts ==
    /\ (req.pc \in {"route", "done"} /\ req.auth \in AuthFailures) =>
          /\ req.outcome = "raised"
          /\ req.exc # "none"
          /\ req.response = <<>>
          /\ req.hotels = None
          /\ req.lookups = 0
    /\ EndedAtResolve =>
          /\ req.outcome = "returned"
          /\ req.response = generate_no_hotels_response(req.language, req.city_name)

\* C3: a request whose token exchange got a non-200 reply has been answered
C3_Witness_AuthFailureRaised ==
    /\ req.pc = "done"
    /\ Truthy(req.city_name)
    /\ req.auth = "non200"
    /\ req.outcome = "raised"
    /\ req.exc = "ConnectionError"

\* C3 (as stated): a failure at the AUTH step does not abort the request, which
\* ends with the 'no hotels found' message for the extracted city.
C3_AuthFailureGivesNoHotels ==
    (req.pc = "done" /\ req.auth \in AuthFailures) =>
        /\ req.outcome = "returned"
        /\ req.response = generate_no_hotels_response(req.language, req.city_name)

\* C4: when the token exchange succeeded (or the cached token was used) or no
\* city was extracted, process_message returns a ChatResponse with a text and
\* raises nothing, whatever the generative service and the lookups reply.
C4_AlwaysAResponse ==
    (req.pc = "done" /\ (req.auth \in {"hit", "exchanged"} \/ ~Truthy(req.city_name))) =>
        (req.outcome = "returned" /\ req.response # <<>>)

\* C4: the token was obtained, the hotel lookup gave a hotel, and building
\* the HotelInfo objects raised pydantic's ValidationError out of
\* process_message
C4_Witness_ValidationErrorRaised ==
    /\ req.pc = "done"
    /\ req.auth \in {"hit", "exchanged"}
    /\ req.hotels_data # <<>>
    /\ req.outcome = "raised"
    /\ req.exc = "ValidationError"
    /\ req.status = 400

\* how the 'no hotels found' message opens in each supported language
NoHotelsOpening(language) ==
    CASE language = english  -> "Sorry, I couldn't find any hotels available in "
      [] language = french   -> "Désolé, je n'ai pas pu trouver d'hôtels disponibles à "
      [] language = malagasy -> "Miala tsiny, tsy nahita hotely misy any "

\* C5: when the city lookup yields no location code, process_message returns
\* the 'no hotels found' message in the detected language, naming the
\* extracted city, with the hotels field absent, and makes no hotel lookup
\* and no rating lookup.
C5_NoCodeGivesNoHotelsMessage ==
    EndedAtResolve =>
        /\ req.outcome = "returned"
        /\ req.status = 200
        /\ req.language \in SupportedLanguages
        /\ req.response[1] = NoHotelsOpening(req.language)
        /\ SubSeq(req.response, 2, 1 + Len(PyStr(req.city_name))) = PyStr(req.city_name)
        /\ req.hotels = None
        /\ req.lookups = 0
        /\ req.rating_calls = 0

\* C5: the generative service named a language outside the supported set,
\* the city lookup gave no code, and the message came in English
C5_Witness_UnsupportedLanguage ==
    /\ EndedAtResolve
    /\ req.language \notin SupportedLanguages
    /\ req.outcome = "returned"
    /\ req.response[1] = NoHotelsOpening(english)
    /\ req.lookups = 0

(* ---- C6, C7, C8: the detector ---- *)

\* the reply is one the detector cannot use: a network error, a non-200
\* status, or a body that is not the expected JSON object
DetectReplyFails(reply) ==
    \/ reply.outcome = "neterr"
    \/ reply.status # 200
    \/ reply.json # "ok"
    \/ reply.content # "object"

\* C6: detect_language_and_extract_city never raises; without an API key it
\* makes no generative call; and without a key, on a network error, on a
\* non-200 reply and on a reply that is not parseable as the expected JSON
\* object its result is fallback_language_detection(message).
C6_DetectFallsBack ==
    det.pc = "done" =>
        /\ det.outcome = "returned"
        /\ ~groq_api_key => ~det.called
        /\ groq_api_key => det.called
        /\ (~groq_api_key \/ DetectReplyFails(det.reply)) =>
              det.value = fallback_language_detection(det.message)

\* C6: the service answered 200 with a content that is no JSON, for a message
\* the patterns find a city in, and the detector returned the fallback's result
C6_Witness_UnparseableReply ==
    /\ det.pc = "done"
    /\ groq_api_key
    /\ det.reply.status = 200 /\ det.reply.json = "ok" /\ det.reply.content = "invalid"
    /\ det.outcome = "returned"
    /\ det.value[2] # None
    /\ det.value = fallback_language_detection(det.message)

\* C7: every result of the detector has a language of the fixed set
\* {english, french, malagasy} and a city that is absent or a string.
C7_ResultInFixedSet ==
    det.pc = "done" =>
        /\ det.value[1] \in SupportedLanguages
        /\ (det.value[2] = None \/ IsStr(det.value[2]))

\* C7: the generative service answered {"language": "spanish", ...} and the
\* detector returned that language
C7_Witness_UnsupportedLanguage ==
    /\ det.pc = "done"
    /\ det.called
    /\ det.reply.language = Present(Str(L_spanish))
    /\ det.value[1] = Str(L_spanish)

\* C8: for every supported language L and every greeting keyword of L,
\* fallback_language_detection of the greeting returns (L, None).
C8_GreetingsDetected ==
    (det.pc = "done" /\ ~groq_api_key) =>
        \A L \in SupportedLanguages :
            (\E k \in 1..Len(greetings(L)) : greetings(L)[k] = det.message) =>
                det.value = <<L, None>>

\* C8: the message is the French greeting "salut" and the fallback detected
\* English
C8_Witness_SalutIsEnglish ==
    /\ det.pc = "done"
    /\ ~groq_api_key
    /\ det.message = W_salut
    /\ det.value = <<english, None>>

(* ---- C9: an empty hotel lookup within a request ---- *)

\* the request has been answered after the hotel lookup gave nothing
EndedAtLookup ==
    /\ req.pc = "done"
    /\ req.steps # <<>>
    /\ req.steps[Len(req.steps)] = "lookup"

\* C9 (as amended): when the live hotel lookup returns nothing the response
\* is the 'no hotels found' message with the hotels field absent, for every
\* city; no rating lookup is made.
C9_EmptyLookupGivesNoHotels ==
    EndedAtLookup =>
        /\ req.outcome = "returned"
        /\ req.lookups = 1
        /\ req.hotels_data = <<>>
        /\ req.hotels = None
        /\ req.rating_calls = 0
        /\ req.response = generate_no_hotels_response(req.language, req.city_name)

\* C9: the lookup gave nothing for Paris, a city of the fixed city table, and
\* the response carries no hotels
C9_Witness_ParisNoHotels ==
    /\ EndedAtLookup
    /\ req.city_name = Str(C_Paris)
    /\ req.hotels = None
    /\ req.status = 200

\* C9 (as stated): when the live hotel lookup returns nothing for a city of
\* the fixed table of known cities, the response carries hotels for the city.
C9_KnownCityGetsStaticHotels ==
    (EndedAtLookup /\ IsStr(req.city_name) /\ InCityMapping(Lower(req.city_name.v))) =>
        (req.hotels # None /\ req.hotels.v # <<>>)

(* ---- C10: the hotel lookup ---- *)

\* the reply is one get_hotels_by_city reads a list from without an error
LookupSucceeds(reply) ==
    /\ reply.outcome = "http" /\ reply.status = 200
    /\ reply.json = "ok" /\ reply.data = "list"
    /\ \A k \in 1..Len(reply.hotels) : k <= 8 => reply.hotels[k].kind = "dict"

\* the positions, among the first 8 of the upstream list, of the entries
\* that have a name and a hotel id
KeptPositions(hotels) ==
    {k \in 1..Len(hotels) :
        /\ k <= 8
        /\ hotels[k].name # Absent /\ Truthy(hotels[k].name[1])
        /\ hotels[k].hotelId # Absent /\ Truthy(hotels[k].hotelId[1])}

\* C10: get_hotels_by_city never raises and returns at most 8 records; on a
\* non-200 reply or any error it returns the empty list; on success the j-th
\* record returned is the j-th of the first 8 upstream entries that have a
\* name and a hotel id.
C10_FirstEightThenFilter ==
    hot.pc = "done" =>
        /\ hot.outcome = "returned"
        /\ Len(hot.value) <= 8
        /\ ~LookupSucceeds(hot.reply) => hot.value = <<>>
        /\ LookupSucceeds(hot.reply) =>
              LET kept == KeptPositions(hot.reply.hotels)
              IN  /\ Len(hot.value) = Cardinality(kept)
                  /\ \A k \in kept :
                        LET j == Cardinality({i \in kept : i < k}) + 1
                        IN  /\ hot.value[j].name = hot.reply.hotels[k].name[1]
                            /\ hot.value[j].hotel_id = hot.reply.hotels[k].hotelId[1]

\* C10: the upstream list has a ninth entry with a name and a hotel id, some
\* of the first 8 entries are dropped, and fewer than 8 records are returned
C10_Witness_NinthNeverReturned ==
    /\ hot.pc = "done"
    /\ LookupSucceeds(hot.reply)
    /\ Len(hot.reply.hotels) >= 9
    /\ HasNameAndId(hot.reply.hotels[9])
    /\ Len(hot.value) \in 1..7
    /\ \A j \in 1..Len(hot.value) : hot.value[j].hotel_id # hot.reply.hotels[9].hotelId[1]

(* ---- C11: get_hotels_with_ratings ---- *)

\* the reply of the sentiment endpoint carries a score
HasScore(reply) ==
    /\ reply.outcome = "http" /\ reply.status = 200 /\ reply.json = "ok"
    /\ reply.data # Absent /\ reply.data[1] # <<>>
    /\ reply.data[1][1].overallRating # Absent
    /\ Truthy(reply.data[1][1].overallRating[1])

\* C11: get_hotels_with_ratings makes exactly one rating lookup per input
\* record, one after the other in input order, and returns one record per
\* input record, in input order, with the same name and hotel id; a record
\* whose lookup fails or has no score gets 'Rating not available'; for the
\* empty list it returns the empty list after no lookup.
C11_OneRecordPerHotel ==
    /\ Len(enr.calls) = Len(enr.hotels_with_ratings)
    /\ Len(enr.calls) <= Len(enr.hotels_data)
    /\ \A k \in 1..Len(enr.calls) : enr.calls[k] = enr.hotels_data[k].hotel_id
    /\ enr.pc = "done" =>
          /\ Len(enr.hotels_with_ratings) = Len(enr.hotels_data)
          /\ \A k \in 1..Len(enr.hotels_data) :
                /\ enr.hotels_with_ratings[k].name = enr.hotels_data[k].name
                /\ enr.hotels_with_ratings[k].hotel_id = enr.hotels_data[k].hotel_id
                /\ IF HasScore(enr.replies[k])
                   THEN /\ IsStr(enr.hotels_with_ratings[k].rating)
                        /\ enr.hotels_with_ratings[k].rating.v # <<>>
                        /\ enr.hotels_with_ratings[k].rating # RatingNotAvailable
                   ELSE enr.hotels_with_ratings[k].rating = RatingNotAvailable
          /\ enr.hotels_data = <<>> => (enr.hotels_with_ratings = <<>> /\ enr.calls = <<>>)

\* C11: a list of three hotels has been enriched; the first lookup failed, the
\* second gave a score
C11_Witness_PlaceholderKept ==
    /\ enr.pc = "done"
    /\ Len(enr.hotels_data) = 3
    /\ Len(enr.hotels_with_ratings) = 3
    /\ ~HasScore(enr.replies[1])
    /\ enr.hotels_with_ratings[1].rating = RatingNotAvailable
    /\ HasScore(enr.replies[2])

(* ---- C12: the stars of a score ---- *)

\* the score of the k-th reply, -1 when it has none
ScoreOf(k) ==
    LET field == rat.replies[k].data[1][1].overallRating
    IN  IF field = Absent THEN -1 ELSE field[1].n

\* the number of stars of the k-th rating text
StarsOf(k) == Cardinality({i \in 1..Len(rat.values[k].v) : rat.values[k].v[i] = "*"})

\* C12: for every score s of 0..100: a missing score and s = 0 give no rating
\* ('not available'); otherwise the number of stars is s / 20 rounded to a
\* nearest integer and clamped to 1..5; it is between 1 and 5, does not
\* decrease when s increases, is 5 for s = 100 and 1 for s = 1.
C12_StarsFromScore ==
    rat.pc = "done" =>
        /\ \A k \in 1..2 :
              IF ScoreOf(k) <= 0
              THEN rat.values[k] = None
              ELSE /\ IsStr(rat.values[k])
                   /\ StarsOf(k) \in 1..5
                   /\ \E q \in 0..6 :
                         /\ 20 * q - ScoreOf(k) <= 10
                         /\ ScoreOf(k) - 20 * q <= 10
                         /\ StarsOf(k) = (IF q < 1 THEN 1 ELSE IF q > 5 THEN 5 ELSE q)
                   /\ ScoreOf(k) = 100 => StarsOf(k) = 5
                   /\ ScoreOf(k) = 1 => StarsOf(k) = 1
        /\ (0 < ScoreOf(1) /\ ScoreOf(1) <= ScoreOf(2)) => StarsOf(1) <= StarsOf(2)

\* C12: the scores 1 and 100 have been rated: one star and five stars
C12_Witness_OneAndHundred ==
    /\ rat.pc = "done"
    /\ ScoreOf(1) = 1 /\ StarsOf(1) = 1
    /\ ScoreOf(2) = 100 /\ StarsOf(2) = 5

(* ---- C13: the templated hotel reply ---- *)

\* the generative call of the composer failed: no key, a network error, a
\* non-200 reply or a malformed reply
ComposeCallFails ==
    \/ ~groq_api_key
    \/ cmp.reply.outcome = "neterr"
    \/ cmp.reply.status # 200
    \/ cmp.reply.json # "ok"
    \/ ~IsStr(cmp.reply.content)

\* the line of the k-th hotel of the list
NumberedLine(k) ==
    Digits(k) \o <<". ">> \o cmp.hotels[k].name.v \o <<" - ">>
    \o cmp.hotels[k].rating.v \o <<"\n">>

\* the text names the city, lists the hotels numbered 1..n in list order and
\* states the total n
TemplatedText(text) ==
    /\ text # <<>>
    /\ Contains(cmp.city_name.v, text)
    /\ \A k \in 1..Len(cmp.hotels) :
          \E p \in 1..Len(text) :
             /\ OccursAt(NumberedLine(k), text, p)
             /\ k > 1 => \E q \in 1..(p - 1) : OccursAt(NumberedLine(k - 1), text, q)
    /\ ~Contains(Digits(Len(cmp.hotels) + 1) \o <<". ">>, text)
    /\ \E p \in 1..Len(text) :
          /\ text[p] \in {"\nTotal ", "\nTotal: ", "\nTotaliny: hotely "}
          /\ OccursAt(Digits(Len(cmp.hotels)), text, p + 1)

\* C13: for every language, city name and hotel list, the empty one included,
\* generate_simple_hotel_response returns a non-empty text that contains the
\* city name, lists the hotels numbered 1..n in list order and states the
\* total n; generate_multilingual_hotel_response returns exactly that text
\* whenever its generative call fails.
C13_SimpleTextListsHotels ==
    cmp.pc = "done" =>
        /\ cmp.op = "simple" => TemplatedText(cmp.text)
        /\ (cmp.op = "multilingual" /\ ComposeCallFails) =>
              /\ TemplatedText(cmp.text)
              /\ cmp.text = generate_simple_hotel_response(cmp.language, cmp.city_name,
                                                           cmp.hotels)

\* C13: the generative service answered without a usable content, for two
\* hotels in New York, and the composer returned the templated text
C13_Witness_MalformedReply ==
    /\ cmp.pc = "done"
    /\ cmp.op = "multilingual"
    /\ groq_api_key
    /\ cmp.reply.status = 200 /\ cmp.reply.json = "ok" /\ ~IsStr(cmp.reply.content)
    /\ Len(cmp.hotels) = 2
    /\ cmp.city_name = Str(C_New_York)
    /\ TemplatedText(cmp.text)

(* ---- C14: 'I want hotels in <City>' ---- *)

W_I_want_hotels_in == <<"I"," ","w","a","n","t"," ","h","o","t","e","l","s"," ","i","n"," ">>

\* the cities of the messages 'I want hotels in <City>' of the requests
ScenarioCities ==
    {C_Paris, <<"O","s","l","o">>, <<"G","e","r","m","a","n","y">>}

\* the request has been answered after the hotel reply was composed
EndedAtCompose ==
    /\ req.pc = "done"
    /\ req.steps # <<>>
    /\ req.steps[Len(req.steps)] = "compose"

\* C14: with the generative service unavailable, 'I want hotels in <City>' is
\* detected as (english, <City>); when the city resolves to a code and the
\* hotel lookup returns n >= 1 records, process_message returns a reply that
\* contains the city name and a numbered list of n entries, and a hotels
\* field with those n records in the same order, each with a non-empty rating
\* text and the city as location.
C14_IWantHotelsInCity ==
    \A city \in ScenarioCities :
        (req.pc = "done" /\ ~groq_api_key /\ req.message = W_I_want_hotels_in \o city) =>
            /\ req.language = english
            /\ req.city_name = Str(city)
            /\ req.hotels_data # <<>> =>
                  /\ EndedAtCompose
                  /\ req.outcome = "returned"
                  /\ Contains(city, req.response)
                  /\ \A k \in 1..Len(req.hotels_data) :
                        Contains(Digits(k) \o <<". ">> \o PyStr(req.hotels_data[k].name)
                                 \o <<" - ">>, req.response)
                  /\ req.hotels # None
                  /\ Len(req.hotels.v) = Len(req.hotels_data)
                  /\ \A k \in 1..Len(req.hotels_data) :
                        /\ req.hotels.v[k].name = req.hotels_data[k].name
                        /\ IsStr(req.hotels.v[k].rating)
                        /\ req.hotels.v[k].rating.v # <<>>
                        /\ req.hotels.v[k].location = Str(city)

\* C14: 'I want hotels in Germany' was detected as Malagasy with no city (the
\* indicator 'any' occurs in 'germany'), and the request ended with the
\* conversational reply
C14_Witness_GermanyIsMalagasy ==
    /\ req.pc = "done"
    /\ ~groq_api_key
    /\ req.message = M_hotels_germany
    /\ req.language = malagasy
    /\ req.city_name = None
    /\ req.steps = <<"detect", "chat">>
    /\ req.status = 200

(* ---- C15: the two fields of the token cache ---- *)

\* C15: in every reachable state the cached token and the cached expiry are
\* both absent or both present.
C15_TokenAndExpiryTogether == (token = None) <=> (token_expiry = None)

\* C15: the token endpoint answered 200 with an access_token and no
\* expires_in; line 61 stored the token, line 62 raised KeyError, and the
\* cache holds a token without an expiry
C15_Witness_TokenWithoutExpiry ==
    /\ token # None
    /\ token_expiry = None
    /\ \E c \in Callers :
          /\ callers[c].pc = "done"
          /\ callers[c].outcome = "raised"
          /\ callers[c].exc = "KeyError"

(* ---- C16: the error mapping of POST /chat ---- *)

\* the exceptions that report a failure to reach or use an upstream service:
\* the ConnectionError get_access_token raises for a non-200 reply, and
\* httpx's errors for a refused connection and a timeout
ConnectivityFailures == {"ConnectionError", "ConnectError", "TimeoutException"}

\* C16: POST /chat answers 400 when processing raises a ValueError, 503 when
\* it raises an upstream connectivity failure, 500 for any other exception,
\* and 200 with the ChatResponse when processing returns one.
C16_RouteErrorMapping ==
    req.pc = "done" =>
        /\ req.outcome = "returned" => (req.status = 200 /\ req.response # <<>>)
        /\ req.outcome = "raised" =>
              req.status = (IF req.exc \in {"ValueError", "JSONDecodeError", "ValidationError"}
                            THEN 400
                            ELSE IF req.exc \in ConnectivityFailures THEN 503
                            ELSE 500)

\* C16: the token exchange timed out; processing raised
\* httpx.TimeoutException and the endpoint answered 500
C16_Witness_Timeout500 ==
    /\ req.pc = "done"
    /\ req.outcome = "raised"
    /\ req.exc = "TimeoutException"
    /\ req.status = 500

(* ---- C17: interleaved calls of get_access_token ---- *)

\* the call of c sent its exchange and returned
Exchanged(c) ==
    /\ callers[c].pc = "done"
    /\ callers[c].sent = 1
    /\ callers[c].outcome = "returned"

\* every caller found the cache empty, sent an exchange, and has its reply:
\* the calls were interleaved, each beginning before any token was stored
AllExchangedFromEmpty ==
    \A c \in Callers :
        /\ callers[c].pc = "done"
        /\ callers[c].sent = 1
        /\ callers[c].cached = None

\* the token and the expiry the exchange of c wrote
WrittenBy(c) ==
    <<callers[c].result, StoredExpiry(callers[c].replied, callers[c].expires_in[1])>>

\* C17: however the calls interleave, a call sends at most one exchange (so
\* there are at most as many exchanges as callers); a caller whose exchange
\* succeeds returns a token, never an absent value; and once all the
\* interleaved calls have finished, one of them successfully, the cache
\* holds the token and the expiry written by one single exchange.
C17_InterleavedCallsLeaveOnePair ==
    /\ \A c \in Callers : callers[c].sent <= 1
    /\ \A c \in Callers : Exchanged(c) => callers[c].result \in Tokens
    /\ (AllExchangedFromEmpty /\ \E c \in Callers : Exchanged(c)) =>
          \E c \in Callers : Exchanged(c) /\ <<token, token_expiry>> = WrittenBy(c)

\* C17: two calls began on the empty cache; one exchanged successfully, the
\* reply of the other came later without expires_in and raised KeyError
\* after storing its token: the cache pairs the token of the second
\* exchange with the expiry of the first
C17_Witness_MixedPair ==
    \E c1, c2 \in Callers :
        /\ AllExchangedFromEmpty
        /\ Exchanged(c1)
        /\ callers[c2].outcome = "raised" /\ callers[c2].exc = "KeyError"
        /\ token \in Tokens /\ token # callers[c1].result
        /\ token_expiry = WrittenBy(c1)[2]

(* ---- C19: the lifetime of a cached token ---- *)

\* this step is the successful end of the exchange of c
ExchangeEnds(c) ==
    /\ callers[c].pc = "waiting"
    /\ callers'[c].pc = "done"
    /\ callers'[c].outcome = "returned"

\* this step is a call of c that is answered from the cache
CacheHit(c) ==
    /\ callers[c].pc # "waiting"
    /\ callers'[c] # callers[c]
    /\ callers'[c].pc = "done"
    /\ callers'[c].sent = 0

\* C19: an exchange that obtains a token at time t with lifetime expires_in
\* caches it with the expiry t + expires_in - 300; a call is answered from
\* the cache only at a time strictly before the cached expiry, with the
\* cached token; the clock never runs backwards.  So a token is returned
\* from the cache only strictly before t + expires_in - 300, and with
\* expires_in <= 300 the stored expiry is not after t and no later call
\* reuses the token.
C19_MarginBeforeExpiry ==
    [][ /\ now' >= now
        /\ \A c \in Callers :
              /\ ExchangeEnds(c) =>
                    LET expires_in == callers'[c].expires_in[1]
                    IN  /\ token' = callers'[c].result
                        /\ token_expiry' = Time(now + expires_in - 300)
                        /\ callers'[c].replied = now
                        /\ expires_in <= 300 => token_expiry'.at <= now
              /\ CacheHit(c) =>
                    /\ token_expiry # None
                    /\ now < token_expiry.at
                    /\ callers'[c].began = now
                    /\ callers'[c].result = token ]_vars

\* C19: an exchange obtained a token at time t with expires_in = 302; a
\* call at t + 1, the last instant before t + 302 - 300, was answered with
\* it from the cache; a call of the first caller at t + 2 had to exchange
\* again
C19_Witness_LastInstantOfReuse ==
    \E c1, c2 \in Callers :
        /\ c1 # c2
        /\ callers[c2].pc = "done" /\ callers[c2].sent = 0
        /\ callers[c2].result = token
        /\ token_expiry # None /\ callers[c2].began = token_expiry.at - 1
        /\ callers[c1].pc = "waiting"
        /\ callers[c1].cached = token
        /\ callers[c1].began = token_expiry.at

(* ---- C20: what changes the token cache ---- *)

\* this step is the successful end of a token exchange: of a caller of
\* get_access_token, of the /chat request, or of health_check
ExchangeSucceeds ==
    \/ \E c \in Callers : ExchangeEnds(c)
    \/ req.pc = "exchange" /\ req'.auth = "exchanged"
    \/ health.pc = "waiting" /\ health'.pc = "done" /\ health'.result

\* C20: the cached token and the cached expiry change only in a step that
\* is a successful token exchange; a cache hit, a failed exchange and every
\* other operation of the service leave both unchanged, and health_check
\* changes them only by the exchange of the get_access_token it calls.
C20_CacheChangesOnlyInExchange ==
    [][ (token' # token \/ token_expiry' # token_expiry) => ExchangeSucceeds ]_vars

\* C20: health_check found the cache empty; the token endpoint answered 200
\* with an access_token and no expires_in, get_access_token raised KeyError
\* and health_check returned False, yet the token is cached
C20_Witness_FailedCheckStoresToken ==
    /\ req.pc = "idle"
    /\ health.pc = "done"
    /\ ~health.result
    /\ token # None
    /\ token_expiry = None

(* ---- C18: the order of the steps of a request ---- *)

\* the steps of a request with a city, in the order of process_message
CitySteps == <<"detect", "auth", "resolve", "lookup", "enrich", "compose">>

\* the steps of a request without a city
ChatSteps == <<"detect", "chat">>

IsPrefix(s, t) == Len(s) <= Len(t) /\ s = SubSeq(t, 1, Len(s))

Occurs(step, s) == \E k \in 1..Len(s) : s[k] = step

\* the steps taken so far are in order, each at most once; the token fetch
\* and the lookups are made only with a city, the conversational composition
\* only without one; the ratings are looked up only for a non-empty list,
\* each hotel once; nothing is done twice
StepsInOrder ==
    /\ \/ IsPrefix(req.steps, CitySteps)
       \/ IsPrefix(req.steps, ChatSteps)
       \/ req.steps = <<"detect", "auth", "raise">>
    /\ Occurs("auth", req.steps) => Truthy(req.city_name)
    /\ Occurs("chat", req.steps) =>
          /\ ~Truthy(req.city_name)
          /\ req.auth = "none" /\ req.access_token = None
          /\ req.city_code = None
          /\ req.lookups = 0 /\ req.rating_calls = 0
    /\ req.auth # "none" => Occurs("auth", req.steps)
    /\ req.city_code # None => Occurs("auth", req.steps)
    /\ req.lookups <= 1
    /\ req.lookups = 1 => IsPrefix(SubSeq(CitySteps, 1, 3), req.steps)
    /\ req.rating_calls <= Len(req.hotels_data)
    /\ Occurs("enrich", req.steps) =>
          (req.hotels_data # <<>> /\ req.rating_calls = Len(req.hotels_data))
    /\ Occurs("compose", req.steps) => Occurs("enrich", req.steps)
    /\ req.pc = "done" =>
          /\ req.outcome \in {"returned", "raised"}
          /\ req.outcome = "returned" => req.response # <<>>
          /\ req.outcome = "raised" => req.exc # "none"
          /\ (req.outcome = "returned" /\ ~Truthy(req.city_name)) =>
                req.steps = ChatSteps

\* C18: in every request the steps occur in the order detect, token fetch,
\* city lookup, hotel lookup, rating enrichment, hotel-reply composition,
\* each at most once and none retried; the steps after detect are taken only
\* when a city was extracted, the enrichment only for a non-empty lookup; a
\* request without a city performs only the conversational composition; and
\* every request that has begun ends in a returned response or a raised
\* error.
C18_StepsInOrderThenDone ==
    /\ []StepsInOrder
    /\ (req.pc = "detect") ~> (req.pc = "done" /\ req.outcome \in {"returned", "raised"})

\* C18: a request has gone through all six steps, with two rating lookups,
\* and has returned its response
C18_Witness_AllSixSteps ==
    /\ req.pc = "done"
    /\ req.outcome = "returned"
    /\ req.steps = CitySteps
    /\ req.lookups = 1
    /\ req.rating_calls = 2

(* ---- C21: the order of the language tests ---- *)

\* some marker of the list is a substring of the lower-cased message
HasMarker(markers, message) ==
    \E k \in 1..Len(markers) : Contains(markers[k], Lower(message))

\* some English city pattern matches the lower-cased message
HasEnglishPattern(message) ==
    \E k \in 1..Len(english_patterns) : ReSearch(english_patterns[k], Lower(message)) # <<>>

\* C21: fallback_language_detection (the detector without an API key) picks
\* the language by first match in a fixed order: french if a French marker
\* is a substring of the lower-cased message, otherwise malagasy if a
\* Malagasy marker is, otherwise english; a message with markers of both
\* languages is french, and a message with no marker and no English city
\* pattern gives (english, None).
C21_FallbackLanguageOrder ==
    (det.pc = "done" /\ ~groq_api_key) =>
        LET fr == HasMarker(french_indicators, det.message)
            mg == HasMarker(malagasy_indicators, det.message)
        IN  /\ det.value[1] = (IF fr THEN french ELSE IF mg THEN malagasy ELSE english)
            /\ (fr /\ mg) => det.value[1] = french
            /\ (~fr /\ ~mg /\ ~HasEnglishPattern(det.message)) =>
                  det.value = <<english, None>>

\* C21: the message 'SALAMA, BONJOUR', whose Malagasy marker comes first in
\* the text, was detected without an API key and is french
C21_Witness_BothMarkersIsFrench ==
    /\ det.pc = "done"
    /\ ~groq_api_key
    /\ det.message = M_salama_bonjour
    /\ HasMarker(french_indicators, det.message)
    /\ HasMarker(malagasy_indicators, det.message)
    /\ det.value = <<french, None>>

(* ---- C22: the canned conversational replies ---- *)

\* the three canned strings of a language, <<greeting, help, other>>
CannedStrings(language) ==
    IF language = french
    THEN << <<"Bonjour! [wave] Je peux vous aider à trouver des hôtels dans n'importe quelle ville du monde. Dites-moi simplement où vous voulez séjourner!">>,
            <<"Je peux vous montrer des listes d'hôtels par ville! [hotel] Dites simplement 'Je veux des hôtels à [nom de la ville]'. Essayez: 'Montrez-moi des hôtels à Paris'">>,
            <<"Je peux vous aider à trouver des hôtels! [hotel] Dites-moi dans quelle ville vous êtes intéressé. Exemple: 'Je veux des hôtels à Tokyo'">> >>
    ELSE IF language = malagasy
    THEN << <<"Manao ahoana! [wave] Afaka manampy anao hitady hotely any amin'ny tanàna rehetra eran'izao tontolo izao aho. Lazao fotsiny hoe aiza no tianao hivonana!">>,
            <<"Afaka mampiseho lisitry ny hotely isaky ny tanàna aho! [hotel] Lazao fotsiny hoe 'Tiako hotely any [anaran'ny tanàna]'. Andramo: 'Asehoy ny hotely any Antananarivo'">>,
            <<"Afaka manampy anao hitady hotely aho! [hotel] Lazao ahy hoe amin'ny tanàna inona no liana ianao. Ohatra: 'Tiako hotely any Paris'">> >>
    ELSE << <<"Hello! [wave] I can help you find hotels in any city worldwide. Just tell me where you want to stay!">>,
            <<"I can show you hotel lists for any city! [hotel] Just say 'I want hotels in [city name]'. Try: 'Show me hotels in Paris'">>,
            <<"I can help you find hotels! [hotel] Just tell me which city you're interested in. Example: 'Hotels in London please'">> >>

\* the message holds a greeting keyword of the language
IsGreetingIn(language, message) ==
    \/ language = english /\ HasMarker(<<W_hello, W_hi, W_hey>>, message)
    \/ language = french /\ HasMarker(<<W_bonjour, W_salut, W_bonsoir>>, message)
    \/ language = malagasy /\ HasMarker(<<W_manao_ahoana, W_salama, W_akory>>, message)

\* the message holds a help keyword of the language
IsHelpIn(language, message) ==
    language \in SupportedLanguages /\ HasMarker(help_words(language), message)

\* C22: when the generative call fails (no key, a network error, a non-200
\* reply, a reply without a string content) the conversational composer
\* returns exactly one of the three canned strings of the language: the
\* greeting one when the message holds a greeting keyword, else the help one
\* when it holds a help keyword, else the third; a language outside the
\* three supported ones gets the English third string.  For the message
\* 'Bonjour' the detector (without a key) yields (french, None) and the
\* composer returns one of the three French strings.
C22_CannedConversationalReply ==
    (cmp.pc = "done" /\ ComposeCallFails) =>
        LET canned == CannedStrings(cmp.language)
        IN  /\ cmp.text = (IF IsGreetingIn(cmp.language, det.message) THEN canned[1]
                           ELSE IF IsHelpIn(cmp.language, det.message) THEN canned[2]
                           ELSE canned[3])
            /\ cmp.language \notin SupportedLanguages =>
                  cmp.text = CannedStrings(english)[3]
            /\ (det.message = M_Bonjour /\ ~groq_api_key) =>
                  /\ det.value = <<french, None>>
                  /\ \E k \in 1..3 : cmp.text = CannedStrings(french)[k]

\* C22: the message 'Hello, help!', which holds a greeting and a help
\* keyword, was detected as english and the generative call of the composer
\* failed with a network error; the reply is the English greeting
C22_Witness_GreetingBeforeHelp ==
    /\ cmp.pc = "done"
    /\ groq_api_key
    /\ cmp.reply.outcome = "neterr"
    /\ det.message = M_hello_help
    /\ cmp.language = english
    /\ IsGreetingIn(english, det.message) /\ IsHelpIn(english, det.message)
    /\ cmp.text = CannedStrings(english)[1]

====
